---------------------------- MODULE Spec2Model ----------------------------
(***************************************************************************)
(* A model of the bag container code of rosqual/roswire:                   *)
(*   - roswire/definitions/bag.py   BagReader (open, index, query, fetch)  *)
(*   - roswire/bag/writer.py        BagWriter (field blocks, header)       *)
(*   - roswire/definitions/encode.py / decode.py   wire primitives         *)
(* Files and buffers are sequences of bytes (naturals); a read or a seek   *)
(* works on a (bytes, cursor) pair exactly as Python's file objects do.    *)
(* A Python exception is the value of an `err` field.                      *)
(***************************************************************************)
EXTENDS Integers, Sequences, FiniteSets, TLC

(***************************************************************************)
(* Bounds of the model.                                                    *)
(***************************************************************************)
\* number of fields a caller hands to BagWriter._write_header
MaxFields == 2
\* length of the raw blocks handed to BagReader._read_header
MaxRawLen == 2
\* number of calls of BagWriter.write on one writer
MaxWriteCalls == 2

(***************************************************************************)
(* Byte strings of the source.                                             *)
(***************************************************************************)
\* b'\x3d', the separator of a field's name and value
SEP == 61
\* b'\x20', the padding byte of the header record
PAD == 32
\* '\n'
NL == 10
\* the size of the header record
HEADER_SIZE == 4096

K_op == <<111, 112>>
K_conn == <<99, 111, 110, 110>>
K_time == <<116, 105, 109, 101>>
K_ver == <<118, 101, 114>>
K_count == <<99, 111, 117, 110, 116>>
K_index_pos == <<105, 110, 100, 101, 120, 95, 112, 111, 115>>
K_conn_count == <<99, 111, 110, 110, 95, 99, 111, 117, 110, 116>>
K_chunk_count == <<99, 104, 117, 110, 107, 95, 99, 111, 117, 110, 116>>
K_chunk_pos == <<99, 104, 117, 110, 107, 95, 112, 111, 115>>
K_start_time == <<115, 116, 97, 114, 116, 95, 116, 105, 109, 101>>
K_end_time == <<101, 110, 100, 95, 116, 105, 109, 101>>
K_compression == <<99, 111, 109, 112, 114, 101, 115, 115, 105, 111, 110>>
K_size == <<115, 105, 122, 101>>
K_topic == <<116, 111, 112, 105, 99>>
K_type == <<116, 121, 112, 101>>
K_md5sum == <<109, 100, 53, 115, 117, 109>>
K_message_definition ==
    <<109, 101, 115, 115, 97, 103, 101, 95, 100, 101, 102, 105, 110, 105, 116, 105, 111, 110>>
K_callerid == <<99, 97, 108, 108, 101, 114, 105, 100>>
K_latching == <<108, 97, 116, 99, 104, 105, 110, 103>>

\* class OpCode: the value of each member is one byte
MESSAGE_DATA == 2
HEADER == 3
INDEX_DATA == 4
CHUNK == 5
CHUNK_INFO == 6
CONNECTION_INFO == 7
OpCode == {MESSAGE_DATA, HEADER, INDEX_DATA, CHUNK, CHUNK_INFO, CONNECTION_INFO}
\* "no opcode expected": _read_header(op_expected=None)
NoOp == 0

\* class Compression
C_none == <<110, 111, 110, 101>>
C_bz2 == <<98, 122, 50>>

\* '#ROSBAG V2.0'
MAGIC == <<35, 82, 79, 83, 66, 65, 71, 32, 86, 50, 46, 48>>

\* the element of a one-element set: The({e(x) : x \in {v}}) is e(v), with
\* v computed once
The(S) == CHOOSE x \in S : TRUE

Min(a, b) == IF a < b THEN a ELSE b
Max(a, b) == IF a > b THEN a ELSE b

(***************************************************************************)
(* Wire primitives.                                                        *)
(***************************************************************************)
\* struct.pack('<I', n): four bytes, little-endian
encode_uint32(n) ==
    << n % 256, (n \div 256) % 256, (n \div 65536) % 256, (n \div 16777216) % 256 >>

\* struct.unpack('<L', v)[0]; only defined on four bytes (struct.error otherwise)
decode_uint32(v) == v[1] + 256 * v[2] + 65536 * v[3] + 16777216 * v[4]

\* b[i:] of Python
Drop(b, n) == SubSeq(b, Min(n, Len(b)) + 1, Len(b))
\* b[:n] of Python
Take(b, n) == SubSeq(b, 1, Min(n, Len(b)))

\* ptr.read(n) at cursor pos: at most n bytes, fewer at the end of the stream
Read(b, pos, n) == SubSeq(b, pos + 1, Min(pos + n, Len(b)))

\* fp.write(data) at cursor pos of a file opened for writing: overwrites, then
\* extends; a gap left by a seek past the end reads as zero bytes
WriteAt(f, pos, data) ==
    IF pos >= Len(f) THEN f \o [i \in 1..(pos - Len(f)) |-> 0] \o data
    ELSE SubSeq(f, 1, pos) \o data \o SubSeq(f, pos + Len(data) + 1, Len(f))

\* the index of the first SEP byte of b, 0 when there is none
RECURSIVE FirstSep(_, _)
FirstSep(b, i) ==
    IF i > Len(b) THEN 0
    ELSE IF b[i] = SEP THEN i
    ELSE FirstSep(b, i + 1)

\* the index of the last SEP byte of b, 0 when there is none
RECURSIVE LastSep(_, _)
LastSep(b, i) ==
    IF i < 1 THEN 0
    ELSE IF b[i] = SEP THEN i
    ELSE LastSep(b, i - 1)

\* a slip: bytes.rpartition(b'\x3d'), which splits on the last separator
PartitionLast(b) ==
    LET i == LastSep(b, Len(b)) IN
    IF i = 0 THEN [name |-> b, sep |-> <<>>, value |-> <<>>]
    ELSE [name |-> SubSeq(b, 1, i - 1), sep |-> <<SEP>>, value |-> SubSeq(b, i + 1, Len(b))]

\* bytes.partition(b'\x3d'): (head, sep, tail); sep is b'' when absent
Partition(b) ==
    LET i == FirstSep(b, 1) IN
    IF i = 0 THEN [name |-> b, sep |-> <<>>, value |-> <<>>]
    ELSE [name |-> SubSeq(b, 1, i - 1), sep |-> <<SEP>>, value |-> SubSeq(b, i + 1, Len(b))]

(***************************************************************************)
(* BagReader: field blocks.                                                *)
(***************************************************************************)
\* `sep == ''` of _read_header: sep is a bytes object and '' a str object, and
\* in Python 3 a bytes object never equals a str object
SepIsEmptyStr(sep) == FALSE

\* a dict with no key
EmptyDict == [x \in {} |-> <<>>]
\* d[k] = v
DictSet(d, k, v) == (k :> v) @@ d

\* the loop `while header:` of _read_header over the block's bytes
RECURSIVE ReadFields(_, _)
ReadFields(header, fields) ==
    IF header = <<>> THEN [err |-> "", fields |-> fields]
    ELSE IF Len(header) < 4 THEN [err |-> "struct.error", fields |-> fields]
    ELSE
        LET size == decode_uint32(Take(header, 4))
            rest == Drop(header, 4)
            p == Partition(Take(rest, size))
        IN  IF SepIsEmptyStr(p.sep)
            THEN [err |-> "error reading header field", fields |-> fields]
            ELSE ReadFields(Drop(rest, size), DictSet(fields, p.name, p.value))

\* BagReader._read_sized(ptr): [err, data, pos]
ReadSized(b, pos) ==
    LET v == Read(b, pos, 4) IN
    IF Len(v) # 4 THEN [err |-> "struct.error", data |-> <<>>, pos |-> pos + Len(v)]
    ELSE LET data == Read(b, pos + 4, decode_uint32(v))
         IN  [err |-> "", data |-> data, pos |-> pos + 4 + Len(data)]

\* the check `if op_expected:` at the end of _read_header
CheckOp(fields, op_expected) ==
    IF op_expected = NoOp THEN ""
    ELSE IF K_op \notin DOMAIN fields THEN "AssertionError"
    ELSE IF ~(Len(fields[K_op]) = 1 /\ fields[K_op][1] \in OpCode) THEN "ValueError"
    ELSE IF fields[K_op] # <<op_expected>> THEN "unexpected opcode"
    ELSE ""

\* BagReader._read_header(op_expected, ptr): [err, fields, pos]
ReadHeader(b, pos, op_expected) ==
    The({ IF s.err # "" THEN [err |-> s.err, fields |-> EmptyDict, pos |-> s.pos]
          ELSE The({ IF r.err # "" THEN [err |-> r.err, fields |-> EmptyDict, pos |-> s.pos]
                     ELSE LET e == CheckOp(r.fields, op_expected) IN
                          [err |-> e, fields |-> IF e = "" THEN r.fields ELSE EmptyDict,
                           pos |-> s.pos]
                     : r \in {ReadFields(s.data, EmptyDict)} })
          : s \in {ReadSized(b, pos)} })

(***************************************************************************)
(* BagReader: the records read when a container is opened.  Every reader   *)
(* takes the bytes f of the file and the cursor pos of self.__fp and       *)
(* returns what it read, the cursor it leaves, and err: the exception it   *)
(* raised ("" when it returned).                                           *)
(***************************************************************************)
\* None
PyNone == <<-1>>

\* the first exception of a sequence of steps
RECURSIVE FirstErr(_)
FirstErr(errs) ==
    IF errs = <<>> THEN ""
    ELSE IF Head(errs) # "" THEN Head(errs)
    ELSE FirstErr(Tail(errs))

\* decode_uint32(fields[key]) and decode_time(fields[key]): what it raises
IntErr(fields, key, width) ==
    IF key \notin DOMAIN fields THEN "KeyError"
    ELSE IF Len(fields[key]) # width THEN "struct.error"
    ELSE ""

\* decode_str(fields[key]): what it raises (the bytes of ASCII text decode to
\* that text; a byte above 127 is taken not to start a valid UTF-8 sequence)
StrErr(fields, key) ==
    IF key \notin DOMAIN fields THEN "KeyError"
    ELSE IF \E i \in 1..Len(fields[key]) : fields[key][i] > 127 THEN "UnicodeDecodeError"
    ELSE ""

\* struct.unpack('<LL', v)[0]: the first of the two 32-bit words
decode_uint64(v) == decode_uint32(SubSeq(v, 1, 4))

\* decode_time(v): Time(secs, nsecs)
decode_time(v) == <<decode_uint32(SubSeq(v, 1, 4)), decode_uint32(SubSeq(v, 5, 8))>>

\* the characters str.rstrip() strips (those of ASCII)
Whitespace == {9, 10, 11, 12, 13, 28, 29, 30, 31, 32}

\* a slip: only the line terminator is stripped
RStripNewline(s) ==
    IF s # <<>> /\ s[Len(s)] = NL THEN SubSeq(s, 1, Len(s) - 1) ELSE s

\* str.rstrip()
RECURSIVE RStrip(_)
RStrip(s) ==
    IF s # <<>> /\ s[Len(s)] \in Whitespace THEN RStrip(SubSeq(s, 1, Len(s) - 1))
    ELSE s

\* the index of the first NL byte of f after pos, 0 when there is none
RECURSIVE FirstNL(_, _)
FirstNL(f, i) ==
    IF i > Len(f) THEN 0
    ELSE IF f[i] = NL THEN i
    ELSE FirstNL(f, i + 1)

\* ptr.readline(): up to and including the first '\n', or to the end
ReadLine(f, pos) ==
    LET i == FirstNL(f, pos + 1) IN
    IF i = 0 THEN Read(f, pos, Len(f)) ELSE SubSeq(f, pos + 1, i)

\* BagReader._read_version(): [err, version, pos]
ReadVersion(f, pos) ==
    LET line == ReadLine(f, pos) IN
    IF \E i \in 1..Len(line) : line[i] > 127
    THEN [err |-> "UnicodeDecodeError", version |-> <<>>, pos |-> pos + Len(line)]
    ELSE [err |-> "", version |-> RStrip(line), pos |-> pos + Len(line)]

\* BagReader._skip_sized() on self.__fp: [err, pos]
SkipSized(f, pos) ==
    LET v == Read(f, pos, 4) IN
    IF Len(v) # 4 THEN [err |-> "struct.error", pos |-> pos + Len(v)]
    ELSE [err |-> "", pos |-> pos + 4 + decode_uint32(v)]

\* BagReader._skip_record(): [err, pos]
SkipRecord(f, pos) ==
    LET a == SkipSized(f, pos) IN
    IF a.err # "" THEN a ELSE SkipSized(f, a.pos)

\* BagReader._read_header_record(): [err, header, pos]
NoHeader == [index_pos |-> 0, conn_count |-> 0, chunk_count |-> 0]
ReadHeaderRecord(f, pos) ==
    The({ LET e == FirstErr(<<h.err, IntErr(h.fields, K_index_pos, 8),
                              IntErr(h.fields, K_conn_count, 4),
                              IntErr(h.fields, K_chunk_count, 4)>>)
          IN  IF e # "" THEN [err |-> e, header |-> NoHeader, pos |-> h.pos]
              ELSE LET k == SkipSized(f, h.pos) IN
                   [err |-> k.err,
                    header |-> [index_pos |-> decode_uint64(h.fields[K_index_pos]),
                                conn_count |-> decode_uint32(h.fields[K_conn_count]),
                                chunk_count |-> decode_uint32(h.fields[K_chunk_count])],
                    pos |-> k.pos]
          : h \in {ReadHeader(f, pos, HEADER)} })

\* BagReader._read_connection_record(): [err, conn, pos]
NoConn == [conn |-> 0, topic |-> <<>>, topic_original |-> <<>>, typ |-> <<>>,
           md5sum |-> <<>>, message_definition |-> <<>>,
           callerid |-> PyNone, latching |-> PyNone]
\* the ConnectionInfo of a record's two field blocks h and c (lines 242-255)
ConnectionRecordOf(h, c) ==
    LET e == FirstErr(<<c.err,
                 IF K_callerid \in DOMAIN c.fields THEN StrErr(c.fields, K_callerid) ELSE "",
                 IF K_latching \in DOMAIN c.fields THEN StrErr(c.fields, K_latching) ELSE "",
                 IntErr(h.fields, K_conn, 4), StrErr(h.fields, K_topic),
                 StrErr(c.fields, K_topic), StrErr(c.fields, K_type),
                 StrErr(c.fields, K_md5sum), StrErr(c.fields, K_message_definition)>>)
    IN  IF e # "" THEN [err |-> e, conn |-> NoConn, pos |-> c.pos]
        ELSE [err |-> "",
              conn |-> [conn |-> decode_uint32(h.fields[K_conn]),
                        topic |-> h.fields[K_topic],
                        topic_original |-> c.fields[K_topic],
                        typ |-> c.fields[K_type],
                        md5sum |-> c.fields[K_md5sum],
                        message_definition |-> c.fields[K_message_definition],
                        callerid |-> IF K_callerid \in DOMAIN c.fields
                                     THEN c.fields[K_callerid] ELSE PyNone,
                        latching |-> IF K_latching \in DOMAIN c.fields
                                     THEN c.fields[K_latching] ELSE PyNone],
              pos |-> c.pos]

ReadConnectionRecord(f, pos) ==
    The({ IF h.err # "" THEN [err |-> h.err, conn |-> NoConn, pos |-> h.pos]
          ELSE The({ ConnectionRecordOf(h, c) : c \in {ReadHeader(f, h.pos, NoOp)} })
          : h \in {ReadHeader(f, pos, CONNECTION_INFO)} })

\* the loop `for i in range(num_connections)` of _read_chunk_info_record over
\* the packed (uid, count) array: [err, connections, contents]
RECURSIVE ReadChunkConnections(_, _, _)
ReadChunkConnections(contents, n, connections) ==
    IF n = 0 THEN [err |-> "", connections |-> connections, contents |-> contents]
    ELSE IF Len(contents) < 8
    THEN [err |-> "struct.error", connections |-> connections, contents |-> contents]
    ELSE ReadChunkConnections(Drop(contents, 8), n - 1,
            Append(connections, [uid |-> decode_uint32(SubSeq(contents, 1, 4)),
                                 count |-> decode_uint32(SubSeq(contents, 5, 8))]))

\* BagReader._read_chunk_info_record(): [err, chunk, pos]; the cursor it leaves
\* is pos_original, the end of the ChunkInfo record
NoChunk == [pos_record |-> 0, pos_data |-> 0, time_start |-> <<0, 0>>,
            time_end |-> <<0, 0>>, connections |-> <<>>, compression |-> <<>>,
            size_uncompressed |-> 0, size_compressed |-> 0]
\* the Chunk header of a ChunkInfo record with the cursor left behind the
\* chunk's size instead of at pos_original
ChunkHeaderOfNoSeek(f, h, s, cs, c) ==
    LET e4 == FirstErr(<<c.err, IntErr(c.fields, K_size, 4), StrErr(c.fields, K_compression)>>)
        v == Read(f, c.pos, 4)
    IN
    IF e4 # "" \/ Len(v) # 4 THEN [err |-> "struct.error", chunk |-> NoChunk, pos |-> c.pos]
    ELSE [err |-> "",
          chunk |-> [pos_record |-> decode_uint64(h.fields[K_chunk_pos]),
                     pos_data |-> c.pos,
                     time_start |-> decode_time(h.fields[K_start_time]),
                     time_end |-> decode_time(h.fields[K_end_time]),
                     connections |-> cs.connections,
                     compression |-> c.fields[K_compression],
                     size_uncompressed |-> decode_uint32(c.fields[K_size]),
                     size_compressed |-> decode_uint32(v)],
          pos |-> c.pos + 4]
\* the Chunk header of a ChunkInfo record (lines 277-303): h is the record's field
\* block, s its sized data, cs the chunk connections decoded from it
ChunkHeaderOf(f, h, s, cs, c) ==
    LET e4 == FirstErr(<<c.err, IntErr(c.fields, K_size, 4), StrErr(c.fields, K_compression)>>)
    IN
    IF e4 # "" THEN [err |-> e4, chunk |-> NoChunk, pos |-> c.pos]
    ELSE IF c.fields[K_compression] \notin {C_none, C_bz2}
    THEN [err |-> "ValueError", chunk |-> NoChunk, pos |-> c.pos]
    ELSE
    LET pos_data == c.pos
        v == Read(f, pos_data, 4)
    IN
    IF Len(v) # 4 THEN [err |-> "struct.error", chunk |-> NoChunk, pos |-> pos_data + Len(v)]
    ELSE [err |-> "",
          chunk |-> [pos_record |-> decode_uint64(h.fields[K_chunk_pos]),
                     pos_data |-> pos_data,
                     time_start |-> decode_time(h.fields[K_start_time]),
                     time_end |-> decode_time(h.fields[K_end_time]),
                     connections |-> cs.connections,
                     compression |-> c.fields[K_compression],
                     size_uncompressed |-> decode_uint32(c.fields[K_size]),
                     size_compressed |-> decode_uint32(v)],
          pos |-> s.pos]
ChunkInfoOf(f, h, s, cs) ==
    LET e3 == FirstErr(<<s.err, cs.err, IF cs.contents # <<>> THEN "AssertionError" ELSE "">>)
    IN
    IF e3 # "" THEN [err |-> e3, chunk |-> NoChunk, pos |-> s.pos]
    ELSE The({ ChunkHeaderOf(f, h, s, cs, c) :
               c \in {ReadHeader(f, decode_uint64(h.fields[K_chunk_pos]), CHUNK)} })

ReadChunkInfoRecord(f, pos) ==
    The({ LET e1 == FirstErr(<<h.err, IntErr(h.fields, K_ver, 4)>>) IN
          IF e1 # "" THEN [err |-> e1, chunk |-> NoChunk, pos |-> h.pos]
          ELSE IF decode_uint32(h.fields[K_ver]) # 1
          THEN [err |-> "AssertionError", chunk |-> NoChunk, pos |-> h.pos]
          ELSE
          LET e2 == FirstErr(<<IntErr(h.fields, K_chunk_pos, 8),
                               IntErr(h.fields, K_start_time, 8),
                               IntErr(h.fields, K_end_time, 8), IntErr(h.fields, K_count, 4)>>)
          IN
          IF e2 # "" THEN [err |-> e2, chunk |-> NoChunk, pos |-> h.pos]
          ELSE The({ ChunkInfoOf(f, h, s, cs) :
                     s \in {ReadSized(f, h.pos)},
                     cs \in {ReadChunkConnections(ReadSized(f, h.pos).data,
                                                  decode_uint32(h.fields[K_count]), <<>>)} })
          : h \in {ReadHeader(f, pos, CHUNK_INFO)} })

\* the loop `for i in range(count)` of _read_index_record: [err, index, pos]
RECURSIVE ReadIndexEntries(_, _, _, _, _, _)
ReadIndexEntries(f, pos, n, pos_chunk, uid, index) ==
    IF n = 0 THEN [err |-> "", index |-> index, pos |-> pos]
    ELSE
    LET t == Read(f, pos, 8)
        o == Read(f, pos + 8, 4)
    IN  IF Len(t) # 8
        THEN [err |-> "struct.error", index |-> index, pos |-> pos + Len(t)]
        ELSE IF Len(o) # 4
        THEN [err |-> "struct.error", index |-> index, pos |-> pos + 8 + Len(o)]
        ELSE IF uid \notin DOMAIN index
        THEN [err |-> "KeyError", index |-> index, pos |-> pos + 12]
        ELSE LET entry == [time |-> decode_time(t), pos |-> pos_chunk,
                           offset |-> decode_uint32(o)]
             IN  ReadIndexEntries(f, pos + 12, n - 1, pos_chunk, uid,
                                  [index EXCEPT ![uid] = Append(@, entry)])

\* BagReader._read_index_record(pos_chunk, index): [err, index, pos]
ReadIndexRecord(f, pos, pos_chunk, index) ==
    The({ LET e == FirstErr(<<h.err, IntErr(h.fields, K_ver, 4), IntErr(h.fields, K_conn, 4),
                              IntErr(h.fields, K_count, 4)>>)
          IN
          IF e # "" THEN [err |-> e, index |-> index, pos |-> h.pos]
          ELSE IF decode_uint32(h.fields[K_ver]) # 1
          THEN [err |-> "AssertionError", index |-> index, pos |-> h.pos]
          ELSE LET v == Read(f, h.pos, 4) IN
               IF Len(v) # 4
               THEN [err |-> "struct.error", index |-> index, pos |-> h.pos + Len(v)]
               ELSE ReadIndexEntries(f, h.pos + 4, decode_uint32(h.fields[K_count]),
                                     pos_chunk, decode_uint32(h.fields[K_conn]), index)
          : h \in {ReadHeader(f, pos, INDEX_DATA)} })

\* the loop `for i in range(len(chunk.connections))` of _read_index
RECURSIVE ReadIndexRecords(_, _, _, _, _)
ReadIndexRecords(f, pos, n, pos_chunk, index) ==
    IF n = 0 THEN [err |-> "", index |-> index, pos |-> pos]
    ELSE The({ IF r.err # "" THEN r
               ELSE ReadIndexRecords(f, r.pos, n - 1, pos_chunk, r.index)
               : r \in {ReadIndexRecord(f, pos, pos_chunk, index)} })

\* one turn of that loop reading a single IndexData record however many
\* connections the chunk lists
ReadIndexChunkOneRecord(f, chunk, index) ==
    The({ IF k.err # "" THEN [err |-> k.err, index |-> index, pos |-> k.pos]
          ELSE ReadIndexRecords(f, k.pos, Min(1, Len(chunk.connections)),
                                chunk.pos_record, index)
          : k \in {SkipRecord(f, chunk.pos_record)} })

\* one turn of the loop `for chunk in self.chunks` of _read_index
ReadIndexChunk(f, chunk, index) ==
    The({ IF k.err # "" THEN [err |-> k.err, index |-> index, pos |-> k.pos]
          ELSE ReadIndexRecords(f, k.pos, Len(chunk.connections), chunk.pos_record, index)
          : k \in {SkipRecord(f, chunk.pos_record)} })

\* index: Index = {c.conn: [] for c in self.connections}
NewIndex(connections) ==
    [c \in {connections[i].conn : i \in 1..Len(connections)} |-> <<>>]

\* the index handed back as it was built, nothing deleted
PruneNothing(index) == index

\* for c in [cc for cc in index if not index[cc]]: del index[c]
Prune(index) == [c \in {cc \in DOMAIN index : index[cc] # <<>>} |-> index[c]]

\* {c.pos_record: c for c in chunks}: the last chunk of a position wins
PosToChunk(chunks) ==
    [p \in {chunks[i].pos_record : i \in 1..Len(chunks)} |->
        chunks[CHOOSE i \in 1..Len(chunks) :
                  /\ chunks[i].pos_record = p
                  /\ \A j \in (i + 1)..Len(chunks) : chunks[j].pos_record # p]]

\* the logging loop that ends __init__ evaluates self.__connections[conn] for
\* every connection id of the index
OpenLogErr(index, connections) ==
    IF \E c \in DOMAIN index : c >= Len(connections) THEN "IndexError" ELSE ""

(***************************************************************************)
(* BagReader.fetch_message_data_record                                     *)
(***************************************************************************)
\* BagReader._skip_sized(bfr): `ptr.seek(self._read_uint32(), os.SEEK_CUR)`.
\* _read_uint32() is called without ptr, so it reads self.__fp; the buffer
\* cursor then moves by that number from where it is.  [err, fp, bpos]
SkipSizedPtr(f, fp, bfr, bpos) ==
    LET v == Read(f, fp, 4) IN
    IF Len(v) # 4 THEN [err |-> "struct.error", fp |-> fp + Len(v), bpos |-> bpos]
    ELSE [err |-> "", fp |-> fp + 4, bpos |-> bpos + decode_uint32(v)]

NoMsg == [topic |-> <<>>, time |-> <<0, 0>>]
FetchFail(e, fp) == [err |-> e, conn_id |-> 0, msg |-> NoMsg, fp |-> fp]

\* the loop `while True` of fetch_message_data_record: [err, conn_id, time, fp]
RECURSIVE FetchScan(_, _, _, _)
FetchScan(f, fp, bfr, bpos) ==
    The({ IF h.err # "" THEN [err |-> h.err, conn_id |-> 0, time |-> <<0, 0>>, fp |-> fp]
          ELSE IF K_op \notin DOMAIN h.fields
          THEN [err |-> "KeyError", conn_id |-> 0, time |-> <<0, 0>>, fp |-> fp]
          ELSE IF ~(Len(h.fields[K_op]) = 1 /\ h.fields[K_op][1] \in OpCode)
          THEN [err |-> "ValueError", conn_id |-> 0, time |-> <<0, 0>>, fp |-> fp]
          ELSE IF h.fields[K_op] = <<CONNECTION_INFO>>
          THEN The({ IF k.err # ""
                     THEN [err |-> k.err, conn_id |-> 0, time |-> <<0, 0>>, fp |-> k.fp]
                     ELSE FetchScan(f, k.fp, bfr, k.bpos)
                     : k \in {SkipSizedPtr(f, fp, bfr, h.pos)} })
          ELSE IF h.fields[K_op] = <<MESSAGE_DATA>>
          THEN LET e == FirstErr(<<IntErr(h.fields, K_conn, 4), IntErr(h.fields, K_time, 8)>>)
               IN  IF e # "" THEN [err |-> e, conn_id |-> 0, time |-> <<0, 0>>, fp |-> fp]
                   ELSE [err |-> "", conn_id |-> decode_uint32(h.fields[K_conn]),
                         time |-> decode_time(h.fields[K_time]), fp |-> fp]
          ELSE [err |-> "unexpected opcode", conn_id |-> 0, time |-> <<0, 0>>, fp |-> fp]
          : h \in {ReadHeader(bfr, bpos, NoOp)} })

\* BagReader.fetch_message_data_record(pos, offset): [err, conn_id, msg, fp];
\* fp is the cursor of self.__fp: where it was when the lookup of the chunk
\* fails, where the call leaves it otherwise
FetchMessageDataRecord(f, fp0, pos_to_chunk, connections, pos, offset) ==
    IF pos \notin DOMAIN pos_to_chunk THEN FetchFail("KeyError", fp0)
    ELSE IF pos_to_chunk[pos].compression # C_none
    THEN FetchFail("NotImplementedError", pos_to_chunk[pos].pos_data)
    ELSE
    The({ IF s.err # "" THEN FetchFail(s.err, s.pos)
          ELSE The({ IF r.err # "" THEN FetchFail(r.err, r.fp)
                     ELSE IF r.conn_id >= Len(connections) THEN FetchFail("IndexError", r.fp)
                     ELSE [err |-> "", conn_id |-> r.conn_id,
                           msg |-> [topic |-> connections[r.conn_id + 1].topic,
                                    time |-> r.time],
                           fp |-> r.fp]
                     : r \in {FetchScan(f, s.pos, s.data, offset)} })
          : s \in {ReadSized(f, pos_to_chunk[pos].pos_data)} })

(***************************************************************************)
(* BagReader: queries.                                                     *)
(***************************************************************************)
\* Time.__lt__: a Time is ordered by its seconds, then its nanoseconds
TimeLT(a, b) == a[1] < b[1] \/ (a[1] = b[1] /\ a[2] < b[2])

\* the truth value of an optional Time argument: None is false, a Time is true
Truthy(t) == t # PyNone

\* IndexEntry.__lt__: IndexEntry is an attrs class, ordered as the tuple
\* (time, pos, offset)
EntryLT(a, b) ==
    IF a.time # b.time THEN TimeLT(a.time, b.time)
    ELSE IF a.pos # b.pos THEN a.pos < b.pos
    ELSE a.offset < b.offset

\* the order of heapq.merge's heap items [value, order, next]: lists compare
\* by their first differing item
HeapLT(e1, o1, e2, o2) == IF e1 # e2 THEN EntryLT(e1, e2) ELSE o1 < o2

\* BagReader._get_connections(topics): `if not topics` holds for None and for
\* an empty collection.  topics is [given, set].
GetConnections(connections, topics) ==
    IF ~topics.given \/ topics.set = {} THEN connections
    ELSE SelectSeq(connections, LAMBDA c : c.topic \in topics.set)

\* set(...): the distinct connections
ConnSet(conns) == {conns[i] : i \in 1..Len(conns)}

\* the orders in which a set can be iterated
RECURSIVE Perms(_)
Perms(S) ==
    IF S = {} THEN {<<>>}
    ELSE UNION {{<<x>> \o p : p \in Perms(S \ {x})} : x \in S}

(***************************************************************************)
(* heapq.merge over the entry lists, as the generator it is.  Its state:   *)
(*   lists    the input lists                                              *)
(*   pulled   how many items next() has taken from each list               *)
(*   taken    how many items of each list the merge has produced           *)
(*   pending  the list whose head was produced last and is not replaced    *)
(*            yet (0: none); it is replaced when the merge is resumed      *)
(*   out      the items produced so far                                    *)
(***************************************************************************)
\* the entry field of a result that carries no entry
NoEntry == [time |-> <<0, 0>>, pos |-> 0, offset |-> 0]

MergeStart(lists) ==
    [lists |-> lists,
     pulled |-> [i \in 1..Len(lists) |-> IF lists[i] # <<>> THEN 1 ELSE 0],
     taken |-> [i \in 1..Len(lists) |-> 0],
     pending |-> 0,
     out |-> <<>>]

\* resuming the merge: [stop, entry, m]
MergeStep(m) ==
    LET p == m.pending
        pulled == IF p # 0 /\ m.pulled[p] < Len(m.lists[p])
                  THEN [m.pulled EXCEPT ![p] = @ + 1] ELSE m.pulled
        active == {i \in 1..Len(m.lists) : m.taken[i] < pulled[i]}
    IN  IF active = {}
        THEN [stop |-> TRUE, entry |-> NoEntry,
              m |-> [m EXCEPT !.pulled = pulled, !.pending = 0]]
        ELSE LET i == CHOOSE i \in active : \A j \in active \ {i} :
                          HeapLT(m.lists[i][pulled[i]], i, m.lists[j][pulled[j]], j)
                 e == m.lists[i][pulled[i]]
             IN  [stop |-> FALSE, entry |-> e,
                  m |-> [m EXCEPT !.pulled = pulled, !.taken[i] = pulled[i],
                                  !.pending = i, !.out = Append(@, e)]]

\* a slip: an entry after time_end is skipped and the merge goes on
RECURSIVE GetEntriesNoExit(_, _, _)
GetEntriesNoExit(m, time_start, time_end) ==
    The({ IF r.stop THEN [kind |-> "stop", entry |-> r.entry, m |-> r.m]
          ELSE IF Truthy(time_start) /\ TimeLT(r.entry.time, time_start)
          THEN GetEntriesNoExit(r.m, time_start, time_end)
          ELSE IF Truthy(time_end) /\ TimeLT(time_end, r.entry.time)
          THEN GetEntriesNoExit(r.m, time_start, time_end)
          ELSE [kind |-> "yield", entry |-> r.entry, m |-> r.m]
          : r \in {MergeStep(m)} })

\* BagReader._get_entries resumed: the loop `for entry in entries` up to its
\* next yield, its return, or the end of the merge.  [kind, entry, m]
RECURSIVE GetEntries(_, _, _)
GetEntries(m, time_start, time_end) ==
    The({ IF r.stop THEN [kind |-> "stop", entry |-> r.entry, m |-> r.m]
          ELSE IF Truthy(time_start) /\ TimeLT(r.entry.time, time_start)
          THEN GetEntries(r.m, time_start, time_end)
          ELSE IF Truthy(time_end) /\ TimeLT(time_end, r.entry.time)
          THEN [kind |-> "return", entry |-> r.entry, m |-> r.m]
          ELSE [kind |-> "yield", entry |-> r.entry, m |-> r.m]
          : r \in {MergeStep(m)} })

(***************************************************************************)
(* BagWriter: field blocks.  A writer is [file, pos]: the bytes of the     *)
(* file and the cursor of its handle.                                      *)
(***************************************************************************)
\* write_uint32(v, fp)
WriteUint32(w, v) ==
    [file |-> WriteAt(w.file, w.pos, encode_uint32(v)), pos |-> w.pos + 4]

\* fp.write(data)
WriteBytes(w, data) ==
    [file |-> WriteAt(w.file, w.pos, data), pos |-> w.pos + Len(data)]

\* fields['op'] = code.value: a dict keeps the place of a key it already has
\* and puts a new key last.  A dict is a sequence of <<name, value>> pairs.
RECURSIVE SetItem(_, _, _)
SetItem(fields, name, value) ==
    IF fields = <<>> THEN << <<name, value>> >>
    ELSE IF Head(fields)[1] = name THEN << <<name, value>> >> \o Tail(fields)
    ELSE << Head(fields) >> \o SetItem(Tail(fields), name, value)

\* the loop `for name, bin_value in fields.items()` of _write_header
RECURSIVE WriteFields(_, _)
WriteFields(w, fields) ==
    IF fields = <<>> THEN w
    ELSE LET bin_name == Head(fields)[1] \o <<SEP>>
             bin_value == Head(fields)[2]
             size_field == Len(bin_name) + Len(bin_value)
         IN  The({ WriteFields(w1, rest)
                   : w1 \in {WriteBytes(WriteBytes(WriteUint32(w, size_field), bin_name),
                                        bin_value)},
                     rest \in {Tail(fields)} })

\* BagWriter._write_header(code, fields)
WriteHeader(w, code, fields) ==
    The({ The({ LET pos_size == w0.pos
                    pos_content == pos_size + 4
                    pos_end == w2.pos
                    size_total == pos_end - pos_content
                    w3 == WriteUint32([file |-> w2.file, pos |-> pos_size], size_total)
                IN  [file |-> w3.file, pos |-> pos_end]
                : w2 \in {WriteFields(WriteUint32(w0, 0), items)} })
          : w0 \in {w}, items \in {SetItem(fields, K_op, <<code>>)} })

\* struct.pack('<Q', x): eight bytes, little-endian.  A 64-bit value is the
\* pair [lo, hi] of its 32-bit halves.
encode_uint64(x) == encode_uint32(x.lo) \o encode_uint32(x.hi)

\* n copies of byte b:  b'\x20' * n  (empty when n <= 0)
Repeat(b, n) == [i \in 1..n |-> b]

\* a slip: the padding computed without the 4 bytes of its own length field
SizePaddingNoLen(size, size_header) == size - size_header

\* size_padding = size - size_header - 4
SizePadding(size, size_header) == size - size_header - 4

\* BagWriter._write_header_record(pos_index, conn_count, chunk_count) of a
\* writer whose __pos_header is pos_header
WriteHeaderRecord(w, pos_header, pos_index, conn_count, chunk_count) ==
    The({ LET pos_current == w1.pos
              size_header == pos_current - pos_header
              size_padding == SizePadding(HEADER_SIZE, size_header)
          IN  The({ WriteBytes(w2, Repeat(PAD, size_padding))
                    : w2 \in {WriteUint32(w1, size_padding)} })
          : w1 \in {WriteHeader([file |-> w.file, pos |-> pos_header], HEADER,
                                << <<K_index_pos, encode_uint64(pos_index)>>,
                                   <<K_conn_count, encode_uint32(conn_count)>>,
                                   <<K_chunk_count, encode_uint32(chunk_count)>> >>)} })

\* BagWriter._write_chunk up to its `raise NotImplementedError`
WriteChunkStart(w) ==
    The({ WriteUint32(w1, 0)
          : w1 \in {WriteHeader(w, CHUNK, << <<K_compression, C_none>>,
                                            <<K_size, encode_uint32(0)>> >>)} })

\* encode_time(time): the seconds, then the nanoseconds.  A Time is <<secs, nsecs>>.
encode_time(t) == encode_uint32(t[1]) \o encode_uint32(t[2])

(***************************************************************************)
(* Container files (format 2.0), laid out as the reader expects them:      *)
(*   version line, Header record, then per chunk a Chunk record followed by *)
(*   one IndexData record per connection of the chunk, then at index_pos   *)
(*   the ConnectionInfo records and the ChunkInfo records.                 *)
(* A container is described by                                             *)
(*   line    the bytes of its first line                                   *)
(*   table   the ConnectionInfo records at index_pos: <<[conn, topic], ..>> *)
(*   chunks  per chunk, in file order, its messages <<[conn, time], ..>>    *)
(*   infos   the order of the ChunkInfo records: chunk numbers             *)
(***************************************************************************)
RECURSIVE Concat(_)
Concat(ss) == IF ss = <<>> THEN <<>> ELSE Head(ss) \o Concat(Tail(ss))

\* one field of a field block: length, name, '=', value
Field(name, value) == encode_uint32(Len(name) + 1 + Len(value)) \o name \o <<SEP>> \o value
\* a length-prefixed run of bytes
Sized(data) == encode_uint32(Len(data)) \o data
\* a field block
Block(fields) == Sized(Concat(fields))

\* type, md5sum and message definition of every connection of the containers
T_type == <<116>>
T_md5 == <<109>>
T_def == <<100>>
\* the payload of every message
T_payload == <<42>>

\* topic of connection id `conn` in a table
TopicOf(table, conn) ==
    IF \E i \in 1..Len(table) : table[i].conn = conn
    THEN table[CHOOSE i \in 1..Len(table) : table[i].conn = conn].topic
    ELSE <<63>>

ConnRecord(conn, topic) ==
    Block(<< Field(K_conn, encode_uint32(conn)), Field(K_topic, topic),
             Field(K_op, <<CONNECTION_INFO>>) >>)
    \o Block(<< Field(K_topic, topic), Field(K_type, T_type), Field(K_md5sum, T_md5),
                Field(K_message_definition, T_def) >>)

MsgRecord(conn, time) ==
    Block(<< Field(K_conn, encode_uint32(conn)), Field(K_time, encode_time(time)),
             Field(K_op, <<MESSAGE_DATA>>) >>)
    \o Sized(T_payload)

\* the connection ids of a chunk's messages, in order of first appearance
RECURSIVE ConnsOf(_, _)
ConnsOf(msgs, seen) ==
    IF msgs = <<>> THEN <<>>
    ELSE IF Head(msgs).conn \in seen THEN ConnsOf(Tail(msgs), seen)
    ELSE <<Head(msgs).conn>> \o ConnsOf(Tail(msgs), seen \cup {Head(msgs).conn})

\* the data of a chunk: each message, after a ConnectionInfo record when it is
\* the first message of its connection in the chunk.  [data, offs]: the bytes
\* and the offset of each message's MessageData record
RECURSIVE ChunkLayout(_, _, _, _, _)
ChunkLayout(table, msgs, seen, data, offs) ==
    IF msgs = <<>> THEN [data |-> data, offs |-> offs]
    ELSE LET c == Head(msgs).conn
             pre == IF c \in seen THEN <<>> ELSE ConnRecord(c, TopicOf(table, c))
         IN  ChunkLayout(table, Tail(msgs), seen \cup {c},
                         data \o pre \o MsgRecord(c, Head(msgs).time),
                         Append(offs, Len(data) + Len(pre)))

ChunkRecord(data) ==
    Block(<< Field(K_compression, C_none), Field(K_size, encode_uint32(Len(data))),
             Field(K_op, <<CHUNK>>) >>)
    \o Sized(data)

\* the packed (time, offset) pairs of connection conn in a chunk
RECURSIVE IndexPairs(_, _, _, _)
IndexPairs(msgs, offs, conn, i) ==
    IF i > Len(msgs) THEN <<>>
    ELSE (IF msgs[i].conn = conn
          THEN encode_time(msgs[i].time) \o encode_uint32(offs[i]) ELSE <<>>)
         \o IndexPairs(msgs, offs, conn, i + 1)

IndexRecord(msgs, offs, conn) ==
    LET pairs == IndexPairs(msgs, offs, conn, 1) IN
    Block(<< Field(K_ver, encode_uint32(1)), Field(K_conn, encode_uint32(conn)),
             Field(K_count, encode_uint32(Len(pairs) \div 12)),
             Field(K_op, <<INDEX_DATA>>) >>)
    \o Sized(pairs)

\* a Chunk record and the IndexData records that follow it
ChunkSection(table, msgs) ==
    LET lay == ChunkLayout(table, msgs, {}, <<>>, <<>>)
        cs == ConnsOf(msgs, {})
    IN  ChunkRecord(lay.data)
        \o Concat([i \in 1..Len(cs) |-> IndexRecord(msgs, lay.offs, cs[i])])

\* the earliest and the latest time of a chunk's messages
TimeLE(a, b) == a[1] < b[1] \/ (a[1] = b[1] /\ a[2] <= b[2])
StartTime(msgs) ==
    IF msgs = <<>> THEN <<0, 0>>
    ELSE msgs[CHOOSE i \in 1..Len(msgs) : \A j \in 1..Len(msgs) : TimeLE(msgs[i].time, msgs[j].time)].time
EndTime(msgs) ==
    IF msgs = <<>> THEN <<0, 0>>
    ELSE msgs[CHOOSE i \in 1..Len(msgs) : \A j \in 1..Len(msgs) : TimeLE(msgs[j].time, msgs[i].time)].time

ChunkInfoRecord(pos, msgs) ==
    LET cs == ConnsOf(msgs, {}) IN
    Block(<< Field(K_ver, encode_uint32(1)),
             Field(K_chunk_pos, encode_uint64([lo |-> pos, hi |-> 0])),
             Field(K_start_time, encode_time(StartTime(msgs))),
             Field(K_end_time, encode_time(EndTime(msgs))),
             Field(K_count, encode_uint32(Len(cs))),
             Field(K_op, <<CHUNK_INFO>>) >>)
    \o Sized(Concat([i \in 1..Len(cs) |->
                encode_uint32(cs[i])
                \o encode_uint32(Cardinality({j \in 1..Len(msgs) : msgs[j].conn = cs[i]}))]))

\* the Header record; its padding is as long as the producer declares it
HeaderRecord(index_pos, conn_count, chunk_count, padding) ==
    Block(<< Field(K_index_pos, encode_uint64([lo |-> index_pos, hi |-> 0])),
             Field(K_conn_count, encode_uint32(conn_count)),
             Field(K_chunk_count, encode_uint32(chunk_count)),
             Field(K_op, <<HEADER>>) >>)
    \o Sized(padding)

\* the chunk sections one after the other, and where each starts in the file
RECURSIVE ChunkSections(_, _, _, _, _)
ChunkSections(table, chunks, i, bytes, starts) ==
    IF i > Len(chunks) THEN [bytes |-> bytes, starts |-> starts]
    ELSE ChunkSections(table, chunks, i + 1, bytes \o ChunkSection(table, chunks[i]),
                       Append(starts, Len(bytes)))

\* the bytes of the container a description stands for
FileOf(d) ==
    LET padding == <<PAD, PAD>>
        head == d.line \o HeaderRecord(0, 0, 0, padding)
        sec == ChunkSections(d.table, d.chunks, 1, <<>>, <<>>)
        index_pos == Len(head) + Len(sec.bytes)
    IN  d.line
        \o HeaderRecord(index_pos, Len(d.table), Len(d.infos), padding)
        \o sec.bytes
        \o Concat([i \in 1..Len(d.table) |-> ConnRecord(d.table[i].conn, d.table[i].topic)])
        \o Concat([i \in 1..Len(d.infos) |->
              ChunkInfoRecord(Len(head) + sec.starts[d.infos[i]], d.chunks[d.infos[i]])])

\* where chunk i's Chunk record starts in the file
ChunkPos(d, i) ==
    Len(d.line \o HeaderRecord(0, 0, 0, <<PAD, PAD>>))
    + ChunkSections(d.table, d.chunks, 1, <<>>, <<>>).starts[i]

\* the records of a chunk's data, in order: [op, conn, time, offset]
RECURSIVE ChunkRecords(_, _, _, _, _)
ChunkRecords(table, msgs, seen, off, recs) ==
    IF msgs = <<>> THEN recs
    ELSE LET c == Head(msgs).conn
             pre == IF c \in seen THEN <<>> ELSE ConnRecord(c, TopicOf(table, c))
             r1 == IF c \in seen THEN recs
                   ELSE Append(recs, [op |-> CONNECTION_INFO, conn |-> c,
                                      time |-> <<0, 0>>, offset |-> off])
             m == [op |-> MESSAGE_DATA, conn |-> c, time |-> Head(msgs).time,
                   offset |-> off + Len(pre)]
         IN  ChunkRecords(table, Tail(msgs), seen \cup {c},
                          off + Len(pre) + Len(MsgRecord(c, Head(msgs).time)),
                          Append(r1, m))

(***************************************************************************)
(* State.                                                                  *)
(***************************************************************************)
VARIABLES
    \* field-block codec: a BagWriter writing one field block, and a stream
    \* handed to BagReader._read_header
    cpc,        \* "idle", "written", "read", "raw", "rozzy"
    cin,        \* the arguments of _write_header: [code, fields]
    cw,         \* the writer: [file, pos]
    cstart,     \* the cursor when _write_header was called
    cout        \* what _read_header returned: [err, fields, pos]

codecVars == <<cpc, cin, cw, cstart, cout>>

VARIABLES
    \* a BagWriter
    wpc,        \* where the writer is: "new", "version", "reserved", "raised"
                \* (_write_chunk and with it write() ended with an exception),
                \* "closed" (_write_chunk returned), "returned" (write()
                \* returned), "rewritten"
    ww,         \* the file and the cursor of its handle: [file, pos]
    pos_header, \* self.__pos_header; -1 while the attribute is not set
    wargs,      \* the arguments of the last _write_header_record
    wcalls,     \* the number of calls of write()
    wmsgs       \* the `messages` argument of the last write()

writerVars == <<wpc, ww, pos_header, wargs, wcalls, wmsgs>>

VARIABLES
    \* a container file and a BagReader on it
    bag,          \* the description of the container
    file,         \* its bytes
    rpc,          \* where __init__ is: "new", "header", "records", "index",
                  \* "open" (it returned), "failed" (it raised)
    rerr,         \* the exception __init__ raised
    fp,           \* the cursor of self.__fp
    header,       \* self.__header
    connections,  \* self.__connections
    chunks,       \* self.__chunks
    pos_to_chunk, \* self.__pos_to_chunk
    index,        \* self.__index; the local `index` while _read_index runs
    nindexed,     \* the chunks whose index records _read_index has read
    handle        \* the file object of self.__fp: "none" before open(fn, 'rb'),
                  \* "open", "closed" once close() was called on it

readerVars ==
    <<bag, file, rpc, rerr, fp, header, connections, chunks, pos_to_chunk, index, nindexed,
      handle>>

VARIABLES
    \* one iteration of read_messages(topics, time_start, time_end)
    qpc,        \* "none", "created" (the generator exists, nothing has run),
                \* "running" (suspended at its yield), "done" (it returned),
                \* "raised" (an exception left it)
    q,          \* the arguments: [topics, time_start, time_end]
    merge,      \* the heapq.merge of _get_entries
    entries,    \* the entries _get_entries has yielded
    msgs,       \* the messages read_messages has yielded
    qerr,       \* the exception that left the generator
    qstops,     \* how often next() was called on the finished generator
    \* one direct call of fetch_message_data_record(pos, offset)
    fetched     \* [done, pos, offset, err, conn_id, msg]

VARIABLES
    \* a second iteration of read_messages on the same reader
    qpc2, q2, merge2, entries2, msgs2, qerr2

secondVars == <<qpc2, q2, merge2, entries2, msgs2, qerr2>>
queryVars == <<qpc, q, merge, entries, msgs, qerr, qstops, fetched, secondVars>>

VARIABLES
    \* one lookup on a ServiceManagerProxy
    spc,        \* "idle", "got" (services[name] ended), "asked" (`name in
                \* services` ended)
    sreq,       \* the name and what the master, the shell and the description
                \* answer: [name, code, url, shell_code, name_fmt]
    sres        \* how the lookup ended: [err, value, has]; value is the
                \* ServiceProxy of services[name], has the answer of `in'

serviceVars == <<spc, sreq, sres>>

VARIABLES
    \* one call of a writer made by string_writer()
    tpc,        \* "idle", "written"
    tin,        \* the string, a sequence of code points, and the length
                \* string_writer was made with: [val, length], the length
                \* being [given, n]
    tout        \* the bytes written to the stream

stringVars == <<tpc, tin, tout>>
vars == <<codecVars, writerVars, readerVars, queryVars, serviceVars, stringVars>>

(***************************************************************************)
(* Inputs of the field-block codec.                                        *)
(***************************************************************************)
\* field names: '', 'a', 'ab', 'op' (UTF-8 of ASCII text; no '=' byte)
FieldNames == {<<>>, <<97>>, <<97, 98>>, K_op}
\* field values: any bytes, '=' included
FieldValues == {<<>>, <<SEP>>, <<97, SEP>>, <<SEP, 98, SEP>>, <<7>>}

\* the dicts of at most n fields, as sequences of pairs with distinct names
RECURSIVE FieldDicts(_)
FieldDicts(n) ==
    IF n = 0 THEN {<<>>}
    ELSE LET less == FieldDicts(n - 1) IN
         less \cup
         { Append(d, <<k, v>>) :
             d \in {e \in less : Len(e) = n - 1},
             k \in FieldNames, v \in FieldValues }

\* the names of a dict
KeysOf(d) == {d[i][1] : i \in 1..Len(d)}
DistinctKeys(d) == Cardinality(KeysOf(d)) = Len(d)
\* the dict as a function from names to values
AsDict(d) == [k \in KeysOf(d) |-> d[CHOOSE i \in 1..Len(d) : d[i][1] = k][2]]

\* raw sub-blocks: a 4-byte length and that many bytes over {'a', '='}
RECURSIVE BytesUpTo(_)
BytesUpTo(n) ==
    IF n = 0 THEN {<<>>}
    ELSE LET less == BytesUpTo(n - 1) IN
         less \cup {Append(b, x) : b \in {c \in less : Len(c) = n - 1}, x \in {97, SEP}}
SubBlocks == {encode_uint32(Len(c)) \o c : c \in BytesUpTo(MaxRawLen)}
\* raw field blocks: a 4-byte length and one or two sub-blocks
RawBlocks ==
    LET bodies == SubBlocks \cup {a \o b : a \in SubBlocks, b \in SubBlocks}
    IN  {encode_uint32(Len(b)) \o b : b \in bodies}

\* some sub-block of the block's body holds no SEP byte
RECURSIVE HasBareSubBlock(_)
HasBareSubBlock(body) ==
    IF Len(body) < 4 THEN FALSE
    ELSE LET size == decode_uint32(Take(body, 4))
             rest == Drop(body, 4)
         IN  FirstSep(Take(rest, size), 1) = 0 \/ HasBareSubBlock(Drop(rest, size))

\* the parts of the state a specification does not use
Zero64 == [lo |-> 0, hi |-> 0]
WriterIdle ==
    /\ wpc = "new"
    /\ ww = [file |-> <<>>, pos |-> 0]
    /\ pos_header = -1
    /\ wargs = [pos_index |-> Zero64, conn_count |-> 0, chunk_count |-> 0]
    /\ wcalls = 0
    /\ wmsgs = <<>>
CodecIdle ==
    /\ cpc = "off"
    /\ cin = [code |-> NoOp, fields |-> <<>>]
    /\ cw = [file |-> <<>>, pos |-> 0]
    /\ cstart = 0
    /\ cout = [err |-> "", fields |-> EmptyDict, pos |-> 0]
NoFetch == [done |-> FALSE, pos |-> 0, offset |-> 0, err |-> "", conn_id |-> 0, msg |-> NoMsg]
NoQuery == [topics |-> [given |-> FALSE, set |-> {}], time_start |-> PyNone, time_end |-> PyNone]
QueryIdle ==
    /\ qpc = "none"
    /\ q = NoQuery
    /\ merge = MergeStart(<<>>)
    /\ entries = <<>>
    /\ msgs = <<>>
    /\ qerr = ""
    /\ qstops = 0
    /\ fetched = NoFetch
    /\ qpc2 = "none"
    /\ q2 = NoQuery
    /\ merge2 = MergeStart(<<>>)
    /\ entries2 = <<>>
    /\ msgs2 = <<>>
    /\ qerr2 = ""
NoUrl == [scheme |-> "", host |-> "", port |-> 0]
NoLookup == [name |-> "", code |-> 0, url |-> NoUrl, shell_code |-> 0,
             name_fmt |-> ""]
NoProxy == [name |-> "", url |-> NoUrl, format |-> ""]
NoAnswer == [err |-> "", value |-> NoProxy, has |-> FALSE]
ServiceIdle ==
    /\ spc = "idle"
    /\ sreq = NoLookup
    /\ sres = NoAnswer
StringIdle ==
    /\ tpc = "idle"
    /\ tin = [val |-> <<>>, length |-> [given |-> FALSE, n |-> 0]]
    /\ tout = <<>>
ReaderIdle ==
    /\ bag = [line |-> <<>>, table |-> <<>>, chunks |-> <<>>, infos |-> <<>>]
    /\ file = <<>>
    /\ rpc = "off"
    /\ rerr = ""
    /\ fp = 0
    /\ header = NoHeader
    /\ connections = <<>>
    /\ chunks = <<>>
    /\ pos_to_chunk = EmptyDict
    /\ index = EmptyDict
    /\ nindexed = 0
    /\ handle = "none"
    /\ QueryIdle

(***************************************************************************)
(* Actions of the field-block codec.                                       *)
(***************************************************************************)
CodecInit ==
    /\ cpc = "idle"
    /\ cin = [code |-> NoOp, fields |-> <<>>]
    /\ cw \in {[file |-> <<>>, pos |-> 0], [file |-> <<9, 9, 9>>, pos |-> 3]}
    /\ cstart = cw.pos
    /\ cout = [err |-> "", fields |-> EmptyDict, pos |-> 0]
    /\ WriterIdle
    /\ ReaderIdle
    /\ ServiceIdle
    /\ StringIdle

\* BagWriter._write_header(code, fields) at the cursor
CodecWrite ==
    /\ cpc = "idle"
    /\ \E code \in OpCode, fields \in {d \in FieldDicts(MaxFields) : DistinctKeys(d)} :
        /\ cin' = [code |-> code, fields |-> fields]
        /\ cw' = WriteHeader(cw, code, fields)
    /\ cpc' = "written"
    /\ UNCHANGED <<cstart, cout, writerVars, readerVars, queryVars,
                   serviceVars, stringVars>>

\* BagReader._read_header(ptr=...) on the bytes the writer emitted
CodecRead ==
    /\ cpc = "written"
    /\ \E op \in {NoOp, cin.code} : cout' = ReadHeader(cw.file, cstart, op)
    /\ cpc' = "read"
    /\ UNCHANGED <<cin, cw, cstart, writerVars, readerVars, queryVars,
                   serviceVars, stringVars>>

\* BagReader._read_header(ptr=...) on a block some other producer wrote
CodecReadRaw ==
    /\ cpc = "idle"
    /\ cstart = 0
    /\ \E block \in RawBlocks :
        /\ cw' = [file |-> block, pos |-> 0]
        /\ cout' = ReadHeader(block, 0, NoOp)
    /\ cpc' = "raw"
    /\ UNCHANGED <<cin, cstart, writerVars, readerVars, queryVars,
                   serviceVars, stringVars>>

\* the values of an `op` field: the six opcodes and bytes that are no opcode
OpBytes == OpCode \cup {0, 1, 8}

\* BagReader._read_header(op_expected, ptr=...) on a block whose `op` field
\* holds any byte
CodecReadExpected ==
    /\ cpc = "idle"
    /\ cstart = 0
    /\ \E op_expected \in OpCode, x \in OpBytes :
        /\ cin' = [code |-> op_expected, fields |-> <<<<K_op, <<x>>>>>>]
        /\ \E block \in {Block(<<Field(K_op, <<x>>)>>)} :
            /\ cw' = [file |-> block, pos |-> 0]
            /\ cout' = ReadHeader(block, 0, op_expected)
    /\ cpc' = "expected"
    /\ UNCHANGED <<cstart, writerVars, readerVars, queryVars,
                   serviceVars, stringVars>>

\* the most bytes missing at the end of a stream
MaxCut == 2
\* the streams that end before the bytes their field block declares: a raw
\* block without its last bytes, the 4-byte length of the block left whole
CutBlocks ==
    {Take(b, Len(b) - k) : b \in {c \in RawBlocks : Len(c) >= 4 + MaxCut}, k \in 1..MaxCut}

\* BagReader._read_header(ptr=...) on a stream that ends early
CodecReadCut ==
    /\ cpc = "idle"
    /\ cstart = 0
    /\ \E block \in CutBlocks :
        /\ cw' = [file |-> block, pos |-> 0]
        /\ cout' = ReadHeader(block, 0, NoOp)
    /\ cpc' = "cut"
    /\ UNCHANGED <<cin, cstart, writerVars, readerVars, queryVars,
                   serviceVars, stringVars>>

\* int.from_bytes(b, 'little'), of any number of bytes
RECURSIVE int_from_bytes(_)
int_from_bytes(b) == IF b = <<>> THEN 0 ELSE Head(b) + 256 * int_from_bytes(Tail(b))

\* rozzy's RecordHeader.from_byte_stream(s), s a stream over f at pos:
\* [err, fields, pos].  `offset` is never advanced; in the loop
\* `s.read(length).partition(0x3d)` is handed an int where bytes are required,
\* and past the loop RecordHeader(fields) lacks the argument `size`.
RecordHeader_from_byte_stream(f, pos) ==
    LET v == Read(f, pos, 4)
        length_header == int_from_bytes(v)
        offset == 4
        p1 == pos + Len(v)
        lv == Read(f, p1, 4)
        length == int_from_bytes(lv)
        body == Read(f, p1 + Len(lv), length)
    IN  IF offset < length_header
        THEN [err |-> "TypeError", fields |-> EmptyDict, pos |-> p1 + Len(lv) + Len(body)]
        ELSE [err |-> "TypeError", fields |-> EmptyDict, pos |-> p1]

\* rozzy's BagHeaderRecord.from_byte_stream(s): a classmethod declared with
\* the single parameter s, so the call BagHeaderRecord.from_byte_stream(stream)
\* hands it two arguments and fails before its body runs.  [err, pos,
\* conn_count, chunk_count]
BagHeaderRecord_from_byte_stream(f, pos) ==
    [err |-> "TypeError", pos |-> pos, conn_count |-> 0, chunk_count |-> 0]

\* the streams handed to rozzy's reader: the raw blocks, alone and followed by
\* another byte, the empty block and the empty stream
RozzyStreams ==
    RawBlocks \cup {b \o <<97>> : b \in RawBlocks} \cup {encode_uint32(0), <<>>}

\* RecordHeader.from_byte_stream(io.BytesIO(block))
CodecReadRozzy ==
    /\ cpc = "idle"
    /\ cstart = 0
    /\ \E block \in RozzyStreams :
        /\ cw' = [file |-> block, pos |-> 0]
        /\ cout' = RecordHeader_from_byte_stream(block, 0)
    /\ cpc' = "rozzy"
    /\ UNCHANGED <<cin, cstart, writerVars, readerVars, queryVars,
                   serviceVars, stringVars>>

CodecNext ==
    \/ CodecWrite \/ CodecRead \/ CodecReadRaw \/ CodecReadExpected \/ CodecReadCut
    \/ CodecReadRozzy

SpecCodec == CodecInit /\ [][CodecNext]_vars

(***************************************************************************)
(* Claims about the field-block codec (checked under SpecCodec).           *)
(***************************************************************************)
\* the map a caller expects back: its own fields, and `op` set to the opcode
ExpectedFields ==
    [k \in KeysOf(cin.fields) \cup {K_op} |->
        IF k = K_op THEN <<cin.code>> ELSE AsDict(cin.fields)[k]]

\* C8: decoding with _read_header the bytes _write_header emitted returns the
\* same name-to-value map plus the `op` field, the reader ends where the writer
\* ended, and the leading 4-byte length is the number of bytes that follow it
\* in the block.
C8_RoundTrip ==
    cpc = "read" =>
        /\ cout.err = ""
        /\ cout.fields = ExpectedFields
        /\ cout.pos = cw.pos
        /\ decode_uint32(Read(cw.file, cstart, 4)) = cw.pos - (cstart + 4)

\* a block of two fields, one value holding '=' bytes, written after other
\* bytes of the file, has been read back
C8_Witness ==
    /\ cpc = "read"
    /\ cstart > 0
    /\ Len(cin.fields) >= 2
    /\ \E i \in 1..Len(cin.fields) : cin.fields[i][2] = <<SEP, 98, SEP>>

\* C10: decoding a field block in which some sub-block holds no '=' byte fails;
\* no field map is returned for it.
C10_BareSubBlockFails ==
    (cpc = "raw" /\ HasBareSubBlock(Drop(cw.file, 4))) => cout.err # ""

(***************************************************************************)
(* BagWriter.write and _write_header_record (SpecWriter).                  *)
(***************************************************************************)
\* the arguments a caller hands to _write_header_record
\* the sequences of messages a caller hands to write(): BagMessage(topic, time)
MessageArgs ==
    {<<>>, <<[topic |-> <<97>>, time |-> <<0, 5>>]>>,
     <<[topic |-> <<97>>, time |-> <<0, 5>>], [topic |-> <<98>>, time |-> <<1, 0>>]>>}
PosIndexValues == {Zero64, [lo |-> 4109, hi |-> 0], [lo |-> 16777216, hi |-> 1]}
CountValues == {0, 1, 255, 256, 65536}

\* BagWriter(fn): the file is opened 'wb', empty, cursor 0
WriterInit ==
    /\ WriterIdle
    /\ CodecIdle
    /\ ReaderIdle
    /\ ServiceIdle
    /\ StringIdle

\* write(): self.__fp.write('#ROSBAG V2.0\n'.encode('utf-8'))
WriteVersion ==
    /\ wpc \in {"new", "raised"}
    /\ wcalls < MaxWriteCalls
    /\ wcalls' = wcalls + 1
    /\ wmsgs' \in MessageArgs
    /\ ww' = WriteBytes(ww, MAGIC \o <<NL>>)
    /\ wpc' = "version"
    /\ UNCHANGED <<pos_header, wargs, codecVars, readerVars, queryVars,
                   serviceVars, stringVars>>

\* write(): self.__pos_header = tell(); self._write_header_record(0, 0, 0)
WriteReserveHeader ==
    /\ wpc = "version"
    /\ pos_header' = ww.pos
    /\ wargs' = [pos_index |-> Zero64, conn_count |-> 0, chunk_count |-> 0]
    /\ ww' = WriteHeaderRecord(ww, ww.pos, Zero64, 0, 0)
    /\ wpc' = "reserved"
    /\ UNCHANGED <<wcalls, wmsgs, codecVars, readerVars, queryVars,
                   serviceVars, stringVars>>

\* write(): self._write_chunk(Compression.NONE, messages), which writes the
\* placeholder Chunk header and size and raises NotImplementedError
WriteChunk ==
    /\ wpc = "reserved"
    /\ ww' = WriteChunkStart(ww)
    /\ wpc' = "raised"
    /\ UNCHANGED <<pos_header, wargs, wcalls, wmsgs, codecVars, readerVars, queryVars,
                   serviceVars, stringVars>>

\* a call of _write_header_record(pos_index, conn_count, chunk_count) on a
\* writer whose header is reserved: the rewrite of the header
RewriteHeader ==
    /\ wpc = "raised"
    /\ \E pos_index \in PosIndexValues, conn_count \in CountValues,
          chunk_count \in CountValues :
        /\ wargs' = [pos_index |-> pos_index, conn_count |-> conn_count,
                     chunk_count |-> chunk_count]
        /\ ww' = WriteHeaderRecord(ww, pos_header, pos_index, conn_count, chunk_count)
    /\ wpc' = "rewritten"
    /\ UNCHANGED <<pos_header, wcalls, wmsgs, codecVars, readerVars, queryVars,
                   serviceVars, stringVars>>

WriterNext == WriteVersion \/ WriteReserveHeader \/ WriteChunk \/ RewriteHeader

SpecWriter == WriterInit /\ [][WriterNext]_vars

\* the header record of the file: its field block, the padding length that
\* follows it, and the padding
HeaderRegion ==
    LET h == ReadHeader(ww.file, pos_header, HEADER)
        n == decode_uint32(Read(ww.file, h.pos, 4))
    IN  [fields |-> h.fields, err |-> h.err, size_padding |-> n,
         padding |-> Read(ww.file, h.pos + 4, n), end |-> h.pos + 4 + n]

\* C7: when _write_header_record returns, for the placeholder and for a rewrite
\* alike, the cursor is at the header offset + 4096, and the 4096 bytes are the
\* field block, a 4-byte padding length and that many 0x20 bytes.
C7_HeaderIs4096 ==
    wpc \in {"reserved", "rewritten"} =>
        LET r == HeaderRegion IN
        /\ ww.pos = pos_header + 4096
        /\ r.err = ""
        /\ r.fields[K_index_pos] = encode_uint64(wargs.pos_index)
        /\ r.fields[K_conn_count] = encode_uint32(wargs.conn_count)
        /\ r.fields[K_chunk_count] = encode_uint32(wargs.chunk_count)
        /\ r.end = pos_header + 4096
        /\ r.padding = Repeat(PAD, r.size_padding)

\* the header has been rewritten with non-zero fields, in a file that holds
\* a chunk after the header region
C7_Witness ==
    /\ wpc = "rewritten"
    /\ wargs.pos_index.hi = 1
    /\ wargs.conn_count = 65536
    /\ wargs.chunk_count = 255
    /\ Len(ww.file) > pos_header + 4096

(***************************************************************************)
(* BagReader: a container is opened, then either one iteration of          *)
(* read_messages is driven by next() or one record is fetched directly     *)
(* (Spec).                                                                 *)
(***************************************************************************)
\* the most messages of a container, and the most messages of a chunk
MaxMsgs == 3
ChunkCap == 2
\* how often next() is called on a finished generator
MaxStops == 1

TopicA == <<97>>
TopicB == <<98>>
Times == {<<0, 5>>, <<1, 0>>}
Row(conn, topic) == [conn |-> conn, topic |-> topic]
\* two topics; two connections of one topic; records out of id order; an id
\* that is not a position of the table
Tables == {<<Row(0, TopicA), Row(1, TopicB)>>, <<Row(0, TopicA), Row(1, TopicA)>>,
           <<Row(1, TopicB), Row(0, TopicA)>>, <<Row(0, TopicA), Row(2, TopicB)>>}

RECURSIVE MsgSeqs(_, _)
MsgSeqs(ids, n) ==
    IF n = 0 THEN {<<>>}
    ELSE LET less == MsgSeqs(ids, n - 1) IN
         less \cup {Append(ms, [conn |-> c, time |-> t]) :
                      ms \in {x \in less : Len(x) = n - 1}, c \in ids, t \in Times}

\* the messages in chunks of at most ChunkCap
RECURSIVE Split(_)
Split(ms) ==
    IF ms = <<>> THEN <<>>
    ELSE IF Len(ms) <= ChunkCap THEN <<ms>>
    ELSE <<SubSeq(ms, 1, ChunkCap)>> \o Split(SubSeq(ms, ChunkCap + 1, Len(ms)))

VersionLine == MAGIC \o <<NL>>
\* first lines other than the version line
OtherLines == {MAGIC \o <<32, NL>>, MAGIC \o <<13, NL>>, MAGIC \o <<9, 32, NL>>,
               <<32>> \o MAGIC \o <<NL>>, SubSeq(MAGIC, 1, 11) \o <<49, NL>>,
               SubSeq(MAGIC, 1, 11) \o <<NL>>, MAGIC \o <<49, NL>>, <<NL>>}

IdsOf(table) == {table[i].conn : i \in 1..Len(table)}
BagsOf(lines, tables, n) ==
    UNION {UNION {{[line |-> l, table |-> t, chunks |-> Split(ms), infos |-> o] :
                      l \in lines, o \in Perms(1..Len(Split(ms)))} :
                  ms \in MsgSeqs(IdsOf(t), n)} :
           t \in tables}
\* the containers: every table with every run of messages, behind the version
\* line; one table with one message behind every other first line
Bags ==
    BagsOf({VersionLine}, Tables, MaxMsgs)
    \cup {b \in BagsOf(OtherLines, {<<Row(0, TopicA), Row(1, TopicB)>>}, 1) :
            Len(b.chunks) = 1}

TopicArgs == {[given |-> FALSE, set |-> {}], [given |-> TRUE, set |-> {}],
              [given |-> TRUE, set |-> {TopicA}], [given |-> TRUE, set |-> {TopicB}]}
TimeArgs == {PyNone} \cup Times

ReaderInit ==
    /\ bag \in Bags
    /\ file = FileOf(bag)
    /\ rpc = "new"
    /\ rerr = ""
    /\ fp = 0
    /\ header = NoHeader
    /\ connections = <<>>
    /\ chunks = <<>>
    /\ pos_to_chunk = EmptyDict
    /\ index = EmptyDict
    /\ nindexed = 0
    /\ handle = "none"
    /\ QueryIdle
    /\ CodecIdle
    /\ WriterIdle
    /\ ServiceIdle
    /\ StringIdle

\* __init__ fails with exception e, the cursor at pos
OpenFails(e, pos) ==
    /\ rpc' = "failed"
    /\ rerr' = e
    /\ fp' = pos

\* BagReader(fn), lines 119-124: the file is opened and its first line checked
OpenVersion ==
    /\ rpc = "new"
    /\ handle' = "open"
    /\ \E v \in {ReadVersion(file, fp)} :
          IF v.err # "" THEN OpenFails(v.err, v.pos)
          ELSE IF v.version # MAGIC THEN OpenFails("AssertionError", v.pos)
          ELSE rpc' = "header" /\ fp' = v.pos /\ rerr' = rerr
    /\ UNCHANGED <<bag, file, header, connections, chunks, pos_to_chunk, index, nindexed,
                   queryVars, codecVars, writerVars,
                   serviceVars, stringVars>>

\* lines 126-130: the header record, then the seek to index_pos
OpenHeader ==
    /\ rpc = "header"
    /\ \E h \in {ReadHeaderRecord(file, fp)} :
          IF h.err # "" THEN OpenFails(h.err, h.pos) /\ header' = header
          ELSE rpc' = "records" /\ fp' = h.header.index_pos /\ header' = h.header
               /\ rerr' = rerr
    /\ UNCHANGED <<bag, handle, file, connections, chunks, pos_to_chunk, index, nindexed,
                   queryVars, codecVars, writerVars,
                   serviceVars, stringVars>>

\* lines 134-136: one turn of the loop over range(conn_count)
OpenConnection ==
    /\ rpc = "records"
    /\ Len(connections) < header.conn_count
    /\ \E r \in {ReadConnectionRecord(file, fp)} :
          IF r.err # "" THEN OpenFails(r.err, r.pos) /\ connections' = connections
          ELSE fp' = r.pos /\ connections' = Append(connections, r.conn)
               /\ UNCHANGED <<rpc, rerr>>
    /\ UNCHANGED <<bag, handle, file, header, chunks, pos_to_chunk, index, nindexed,
                   queryVars, codecVars, writerVars,
                   serviceVars, stringVars>>

\* lines 141-143: one turn of the loop over range(chunk_count)
OpenChunkInfo ==
    /\ rpc = "records"
    /\ Len(connections) >= header.conn_count
    /\ Len(chunks) < header.chunk_count
    /\ \E r \in {ReadChunkInfoRecord(file, fp)} :
          IF r.err # "" THEN OpenFails(r.err, r.pos) /\ chunks' = chunks
          ELSE fp' = r.pos /\ chunks' = Append(chunks, r.chunk)
               /\ UNCHANGED <<rpc, rerr>>
    /\ UNCHANGED <<bag, handle, file, header, connections, pos_to_chunk, index, nindexed,
                   queryVars, codecVars, writerVars,
                   serviceVars, stringVars>>

\* lines 144-149 and 307: the chunk table is complete; _read_index starts
OpenIndexStart ==
    /\ rpc = "records"
    /\ Len(connections) >= header.conn_count
    /\ Len(chunks) >= header.chunk_count
    /\ rpc' = "index"
    /\ pos_to_chunk' = PosToChunk(chunks)
    /\ index' = NewIndex(connections)
    /\ UNCHANGED <<bag, handle, file, rerr, fp, header, connections, chunks, nindexed,
                   queryVars, codecVars, writerVars,
                   serviceVars, stringVars>>

\* lines 308-314: one turn of the loop over self.chunks
OpenIndexChunk ==
    /\ rpc = "index"
    /\ nindexed < Len(chunks)
    /\ \E r \in {ReadIndexChunk(file, chunks[nindexed + 1], index)} :
          /\ index' = r.index
          /\ IF r.err # "" THEN OpenFails(r.err, r.pos) /\ nindexed' = nindexed
             ELSE fp' = r.pos /\ nindexed' = nindexed + 1 /\ UNCHANGED <<rpc, rerr>>
    /\ UNCHANGED <<bag, handle, file, header, connections, chunks, pos_to_chunk,
                   queryVars, codecVars, writerVars,
                   serviceVars, stringVars>>

\* lines 317-322 and 150-153: the index is pruned, then logged
OpenFinish ==
    /\ rpc = "index"
    /\ nindexed >= Len(chunks)
    /\ \E ix \in {Prune(index)} :
          /\ index' = ix
          /\ rerr' = OpenLogErr(ix, connections)
          /\ rpc' = IF OpenLogErr(ix, connections) = "" THEN "open" ELSE "failed"
    /\ UNCHANGED <<bag, handle, file, fp, header, connections, chunks, pos_to_chunk, nindexed,
                   queryVars, codecVars, writerVars,
                   serviceVars, stringVars>>

\* it = reader.read_messages(topics, time_start, time_end): the generator is
\* created and none of its code runs
QueryStart ==
    /\ rpc = "open" /\ qpc = "none" /\ ~fetched.done
    /\ \E tp \in TopicArgs, ts \in TimeArgs, te \in TimeArgs :
          q' = [topics |-> tp, time_start |-> ts, time_end |-> te]
    /\ qpc' = "created"
    /\ UNCHANGED <<merge, entries, msgs, qerr, qstops, fetched, secondVars, readerVars,
                   codecVars, writerVars,
                   serviceVars, stringVars>>

\* the generators run from the merge m to the next yield of read_messages, to
\* their end, or to an exception
Resume(m) ==
    \E g \in {GetEntries(m, q.time_start, q.time_end)} :
       IF g.kind = "yield"
       THEN \E r \in {FetchMessageDataRecord(file, fp, pos_to_chunk, connections,
                                             g.entry.pos, g.entry.offset)} :
             /\ merge' = g.m
             /\ entries' = Append(entries, g.entry)
             /\ fp' = r.fp
             /\ msgs' = IF r.err = "" THEN Append(msgs, r.msg) ELSE msgs
             /\ qpc' = IF r.err = "" THEN "running" ELSE "raised"
             /\ qerr' = r.err
       ELSE /\ merge' = g.m
            /\ qpc' = "done"
            /\ UNCHANGED <<entries, msgs, qerr, fp>>

\* the first next(it): conns = set(...), the entry lists in the order the set
\* is iterated, the merge, then on to the first yield
QueryFirst ==
    /\ qpc = "created"
    /\ \E order \in Perms(ConnSet(GetConnections(connections, q.topics))) :
          IF \E i \in 1..Len(order) : order[i].conn \notin DOMAIN index
          THEN /\ qpc' = "raised"
               /\ qerr' = "KeyError"
               /\ UNCHANGED <<merge, entries, msgs, fp>>
          ELSE \E m \in {MergeStart([i \in 1..Len(order) |-> index[order[i].conn]])} :
                  Resume(m)
    /\ UNCHANGED <<q, qstops, fetched, secondVars, bag, handle, file, rpc, rerr, header, connections,
                   chunks, pos_to_chunk, index, nindexed, codecVars, writerVars,
                   serviceVars, stringVars>>

\* a later next(it)
QueryNext ==
    /\ qpc = "running"
    /\ \E m \in {merge} : Resume(m)
    /\ UNCHANGED <<q, qstops, fetched, secondVars, bag, handle, file, rpc, rerr, header, connections,
                   chunks, pos_to_chunk, index, nindexed, codecVars, writerVars,
                   serviceVars, stringVars>>

\* next(it) on a generator that has returned or raised: StopIteration
QueryStop ==
    /\ qpc \in {"done", "raised"}
    /\ qstops < MaxStops
    /\ qstops' = qstops + 1
    /\ UNCHANGED <<qpc, q, merge, entries, msgs, qerr, fetched, secondVars, readerVars,
                   codecVars, writerVars,
                   serviceVars, stringVars>>

\* the offsets of the records of the chunk at pos
RecordOffsets(pos) ==
    UNION {{r.offset : r \in {ChunkRecords(bag.table, bag.chunks[i], {}, 0, <<>>)[k] :
                               k \in 1..Len(ChunkRecords(bag.table, bag.chunks[i], {}, 0, <<>>))}} :
           i \in {j \in 1..Len(bag.chunks) : ChunkPos(bag, j) = pos}}

\* reader.fetch_message_data_record(pos, offset), at a record of a chunk or at
\* a position where no chunk is
DirectFetch ==
    /\ rpc = "open" /\ qpc = "none" /\ ~fetched.done
    /\ \E pos \in DOMAIN pos_to_chunk \cup {0} :
       \E offset \in RecordOffsets(pos) \cup {0} :
       \E r \in {FetchMessageDataRecord(file, fp, pos_to_chunk, connections, pos, offset)} :
          /\ fetched' = [done |-> TRUE, pos |-> pos, offset |-> offset, err |-> r.err,
                         conn_id |-> r.conn_id, msg |-> r.msg]
          /\ fp' = r.fp
    /\ UNCHANGED <<qpc, q, merge, entries, msgs, qerr, qstops, secondVars, bag, handle, file, rpc, rerr,
                   header, connections, chunks, pos_to_chunk, index, nindexed,
                   codecVars, writerVars,
                   serviceVars, stringVars>>

Next ==
    \/ OpenVersion \/ OpenHeader \/ OpenConnection \/ OpenChunkInfo
    \/ OpenIndexStart \/ OpenIndexChunk \/ OpenFinish
    \/ QueryStart \/ QueryFirst \/ QueryNext \/ QueryStop \/ DirectFetch
Spec == ReaderInit /\ [][Next]_vars

(***************************************************************************)
(* Two iterations of read_messages on one reader, advanced in any order    *)
(* (SpecTwo).  Both run in the caller's thread: a next() runs its          *)
(* generator to the next yield before any other next() starts.             *)
(***************************************************************************)
\* the most messages of a container read by two iterations
MaxTwoMsgs == 2
TwoBags == BagsOf({VersionLine}, {<<Row(0, TopicA), Row(1, TopicB)>>}, MaxTwoMsgs)

TwoInit ==
    /\ bag \in TwoBags
    /\ file = FileOf(bag)
    /\ rpc = "new"
    /\ rerr = ""
    /\ fp = 0
    /\ header = NoHeader
    /\ connections = <<>>
    /\ chunks = <<>>
    /\ pos_to_chunk = EmptyDict
    /\ index = EmptyDict
    /\ nindexed = 0
    /\ handle = "none"
    /\ QueryIdle
    /\ CodecIdle
    /\ WriterIdle
    /\ ServiceIdle
    /\ StringIdle

\* it2 = reader.read_messages(topics, time_end=...), created once the first
\* iteration exists
Query2Start ==
    /\ rpc = "open" /\ qpc # "none" /\ qpc2 = "none"
    /\ \E tp \in TopicArgs, te \in TimeArgs :
          q2' = [topics |-> tp, time_start |-> PyNone, time_end |-> te]
    /\ qpc2' = "created"
    /\ UNCHANGED <<merge2, entries2, msgs2, qerr2, qpc, q, merge, entries, msgs, qerr,
                   qstops, fetched, readerVars, codecVars, writerVars,
                   serviceVars, stringVars>>

\* the generators of the second iteration run from the merge m to the next
\* yield, to their end, or to an exception
Resume2(m) ==
    \E g \in {GetEntries(m, q2.time_start, q2.time_end)} :
       IF g.kind = "yield"
       THEN \E r \in {FetchMessageDataRecord(file, fp, pos_to_chunk, connections,
                                             g.entry.pos, g.entry.offset)} :
             /\ merge2' = g.m
             /\ entries2' = Append(entries2, g.entry)
             /\ fp' = r.fp
             /\ msgs2' = IF r.err = "" THEN Append(msgs2, r.msg) ELSE msgs2
             /\ qpc2' = IF r.err = "" THEN "running" ELSE "raised"
             /\ qerr2' = r.err
       ELSE /\ merge2' = g.m
            /\ qpc2' = "done"
            /\ UNCHANGED <<entries2, msgs2, qerr2, fp>>

\* the first next(it2)
Query2First ==
    /\ qpc2 = "created"
    /\ \E order \in Perms(ConnSet(GetConnections(connections, q2.topics))) :
          IF \E i \in 1..Len(order) : order[i].conn \notin DOMAIN index
          THEN /\ qpc2' = "raised"
               /\ qerr2' = "KeyError"
               /\ UNCHANGED <<merge2, entries2, msgs2, fp>>
          ELSE \E m \in {MergeStart([i \in 1..Len(order) |-> index[order[i].conn]])} :
                  Resume2(m)
    /\ UNCHANGED <<q2, qpc, q, merge, entries, msgs, qerr, qstops, fetched, bag, handle,
                   file, rpc, rerr, header, connections, chunks, pos_to_chunk, index,
                   nindexed, codecVars, writerVars,
                   serviceVars, stringVars>>

\* a slip: the merge is kept on the reader, so the second iteration resumes
\* the merge of the first
Query2NextShared ==
    /\ qpc2 = "running"
    /\ \E m \in {merge} : Resume2(m)
    /\ UNCHANGED <<q2, qpc, q, merge, entries, msgs, qerr, qstops, fetched, bag, handle,
                   file, rpc, rerr, header, connections, chunks, pos_to_chunk, index,
                   nindexed, codecVars, writerVars,
                   serviceVars, stringVars>>

\* a later next(it2)
Query2Next ==
    /\ qpc2 = "running"
    /\ \E m \in {merge2} : Resume2(m)
    /\ UNCHANGED <<q2, qpc, q, merge, entries, msgs, qerr, qstops, fetched, bag, handle,
                   file, rpc, rerr, header, connections, chunks, pos_to_chunk, index,
                   nindexed, codecVars, writerVars,
                   serviceVars, stringVars>>

NextTwo == Next \/ Query2Start \/ Query2First \/ Query2Next
SpecTwo == TwoInit /\ [][NextTwo]_vars

(***************************************************************************)
(* A container in which the opcode byte of one MessageData record was      *)
(* replaced, opened and queried as above (SpecDamaged).  The description   *)
(* carries the damage: [chunk, msg, byte].                                 *)
(***************************************************************************)
\* the bytes that replace the opcode: no opcode, record kinds other than
\* MessageData
DamageBytes == {0, HEADER, CHUNK_INFO, CONNECTION_INFO, 8}

\* the offset in chunk i's data of the MessageData record of its k-th message
MsgOffset(d, i, k) == ChunkLayout(d.table, d.chunks[i], {}, <<>>, <<>>).offs[k]

\* where in the file the opcode byte of that record is: the last byte of the
\* record's field block
OpBytePos(d, i, k) ==
    LET data == ChunkLayout(d.table, d.chunks[i], {}, <<>>, <<>>).data
        m == d.chunks[i][k]
    IN  ChunkPos(d, i) + (Len(ChunkRecord(data)) - Len(data)) + MsgOffset(d, i, k)
        + (Len(MsgRecord(m.conn, m.time)) - Len(Sized(T_payload))) - 1

DamagedFileOf(d) ==
    WriteAt(FileOf(d), OpBytePos(d, d.damage.chunk, d.damage.msg), <<d.damage.byte>>)

\* containers of two connections and up to MaxMsgs messages, ChunkInfo records
\* in file order, with one opcode byte replaced
DamagedBags ==
    UNION {{[line |-> b.line, table |-> b.table, chunks |-> b.chunks, infos |-> b.infos,
             damage |-> [chunk |-> i, msg |-> k, byte |-> x]] :
              i \in {j \in 1..Len(b.chunks) : k \in 1..Len(b.chunks[j])}, x \in DamageBytes} :
           b \in {c \in BagsOf({VersionLine}, {<<Row(0, TopicA), Row(1, TopicB)>>}, MaxMsgs) :
                    \A j \in 1..Len(c.infos) : c.infos[j] = j},
           k \in 1..ChunkCap}

DamagedInit ==
    /\ bag \in DamagedBags
    /\ file = DamagedFileOf(bag)
    /\ rpc = "new"
    /\ rerr = ""
    /\ fp = 0
    /\ header = NoHeader
    /\ connections = <<>>
    /\ chunks = <<>>
    /\ pos_to_chunk = EmptyDict
    /\ index = EmptyDict
    /\ nindexed = 0
    /\ handle = "none"
    /\ QueryIdle
    /\ CodecIdle
    /\ WriterIdle
    /\ ServiceIdle
    /\ StringIdle

SpecDamaged == DamagedInit /\ [][Next]_vars

(***************************************************************************)
(* Properties of queries.                                                  *)
(***************************************************************************)
SeqSet(s) == {s[i] : i \in 1..Len(s)}
\* every entry of the index
AllIndexEntries == UNION {SeqSet(index[c]) : c \in DOMAIN index}
\* a sequence of entries in non-decreasing time order
NonDecreasing(es) ==
    \A i, j \in 1..Len(es) : i < j => ~TimeLT(es[j].time, es[i].time)
\* the iteration is over: the generator returned or an exception left it
Finished == qpc \in {"done", "raised"}
Filterless == ~q.topics.given /\ q.time_start = PyNone /\ q.time_end = PyNone

\* C1: a query with no topic filter and no time bounds, once it is over, has
\* yielded every entry of the index exactly once, in non-decreasing time order.
C1_FilterlessYieldsAll ==
    (Finished /\ Filterless) =>
        /\ qpc = "done"
        /\ Len(msgs) = Len(entries)
        /\ SeqSet(entries) = AllIndexEntries
        /\ Len(entries) = Cardinality(AllIndexEntries)
        /\ NonDecreasing(entries)

\* the entries of the connections the query selects
SelectedEntries ==
    LET sel == GetConnections(connections, q.topics) IN
    UNION {SeqSet(index[sel[i].conn]) : i \in {j \in 1..Len(sel) : sel[j].conn \in DOMAIN index}}
InRange(t) == ~TimeLT(t, q.time_start) /\ ~TimeLT(q.time_end, t)

\* C2: a query with bounds a and b, once it is over, has yielded exactly the
\* entries of the selected connections whose time t satisfies a <= t <= b.
C2_TimeBoundsExact ==
    (Finished /\ q.time_start # PyNone /\ q.time_end # PyNone) =>
        /\ qpc = "done"
        /\ SeqSet(entries) = {e \in SelectedEntries : InRange(e.time)}
        /\ Len(entries) = Cardinality(SeqSet(entries))

\* the connections that take part when the topics argument is absent (all) or
\* given (those whose topic is a member)
Participants ==
    {c \in ConnSet(connections) : ~q.topics.given \/ c.topic \in q.topics.set}

\* the ConnectionInfo records are in the order of their ids, from 0
IdOrdered == \A i \in 1..Len(connections) : connections[i].conn = i - 1

\* C3: in a container whose connection records are in id order, the merge of a
\* query runs over the lists of the participating connections, and when topics
\* are given every yielded message has a topic of the given collection.
C3_TopicResolution ==
    IdOrdered =>
        /\ qpc \in {"running", "done"} => Len(merge.lists) = Cardinality(Participants)
        /\ q.topics.given => \A i \in 1..Len(msgs) : msgs[i].topic \in q.topics.set

\* the merge has produced an entry later than time_end
Exceeded ==
    /\ q.time_end # PyNone
    /\ \E k \in 1..Len(merge.out) : TimeLT(q.time_end, merge.out[k].time)

WrittenInTimeOrder ==
    LET ms == Concat(bag.chunks) IN
    \A i, j \in 1..Len(ms) : i < j => ~TimeLT(ms[j].time, ms[i].time)

\* C5: after a successful open of a container whose messages were appended in
\* non-decreasing time order, every index list is non-decreasing in time.
C5_IndexSorted ==
    (rpc = "open" /\ WrittenInTimeOrder) =>
        \A c \in DOMAIN index : NonDecreasing(index[c])

(***************************************************************************)
(* Properties of fetch_message_data_record and of the version check.       *)
(***************************************************************************)
\* the records of the chunk at pos, as the container was laid out
RecordsAt(pos) ==
    ChunkRecords(bag.table,
                 bag.chunks[CHOOSE i \in 1..Len(bag.chunks) : ChunkPos(bag, i) = pos],
                 {}, 0, <<>>)
\* the first MessageData record of a chunk at or after an offset
FirstMessageFrom(recs, offset) ==
    recs[CHOOSE k \in 1..Len(recs) :
            /\ recs[k].op = MESSAGE_DATA /\ recs[k].offset >= offset
            /\ \A j \in 1..(k - 1) : ~(recs[j].op = MESSAGE_DATA /\ recs[j].offset >= offset)]

\* C6: a fetch at the offset of a record of an uncompressed chunk skips the
\* ConnectionInfo records it finds there, payload included, and returns the
\* conn and the time of the first MessageData record that follows.
C6_FetchSkipsConnectionInfo ==
    (fetched.done /\ fetched.offset \in RecordOffsets(fetched.pos)) =>
        LET m == FirstMessageFrom(RecordsAt(fetched.pos), fetched.offset) IN
        /\ fetched.err = ""
        /\ fetched.conn_id = m.conn
        /\ fetched.msg.time = m.time

\* a line without its trailing whitespace
Stripped(line) ==
    LET last == {i \in 1..Len(line) : line[i] \notin Whitespace} IN
    IF last = {} THEN <<>>
    ELSE SubSeq(line, 1, CHOOSE i \in last : \A j \in last : j <= i)

\* __init__ stopped at the version check: nothing after the first line was read
StoppedAtVersion ==
    /\ rpc = "failed" /\ rerr = "AssertionError"
    /\ fp = Len(bag.line)
    /\ header = NoHeader /\ connections = <<>> /\ chunks = <<>>

OpDiffers == cpc = "expected" /\ cin.fields[1][2] # <<cin.code>>

\* C11: whenever _read_header is called with an expected opcode and the decoded
\* `op` value differs from it, for every byte value of `op` (bytes that are none
\* of the six record kinds included), the call fails with the unexpected-opcode
\* error, the one whose message names the expected and the actual opcode.
C11_UnexpectedOpcode == OpDiffers => cout.err = "unexpected opcode"

\* the number of bytes the length prefix at the start of the stream declares
DeclaredLen == decode_uint32(Read(cw.file, 0, 4))

\* C13: whenever a length-prefixed block declares more bytes than remain in the
\* stream, the read fails (with the truncated-input error): _read_sized never
\* returns a block shorter than the declared length, and _read_header returns
\* no field map for it.
C13_TruncatedFails ==
    (cpc = "cut" /\ DeclaredLen > Len(cw.file) - 4) =>
        /\ cout.err # ""
        /\ ReadSized(cw.file, 0).err = "" => Len(ReadSized(cw.file, 0).data) = DeclaredLen

(***************************************************************************)
(* Claims about a damaged container (SpecDamaged).                         *)
(***************************************************************************)
\* the index entry of the damaged record
DamagedPos == ChunkPos(bag, bag.damage.chunk)
DamagedOffset == MsgOffset(bag, bag.damage.chunk, bag.damage.msg)

\* C12: the fetch of the entry whose MessageData opcode byte was replaced by a
\* byte that is no ConnectionInfo (and no MessageData) opcode fails with the
\* unexpected-opcode error.
C12_FetchUnexpectedOpcode ==
    (/\ fetched.done
     /\ fetched.pos = DamagedPos
     /\ fetched.offset = DamagedOffset
     /\ bag.damage.byte # CONNECTION_INFO)
    => fetched.err = "unexpected opcode"

\* the fetch of entry e returns a message
Resolves(e) ==
    FetchMessageDataRecord(file, fp, pos_to_chunk, connections, e.pos, e.offset).err = ""
\* the fetch of an entry the query had reached failed
FetchFailed == qpc = "raised" /\ Len(entries) = Len(msgs) + 1

\* C14: when the fetch of one entry fails during a filterless query and the
\* caller keeps calling next() until the iteration ends, the caller has
\* received a message for every entry of the index whose fetch succeeds.
C14_FailurePerEntry ==
    (FetchFailed /\ Filterless /\ qstops > 0) =>
        Len(msgs) = Cardinality({e \in AllIndexEntries : Resolves(e)})

(***************************************************************************)
(* Claims about a write session (SpecWriter, SpecWriterLive).              *)
(***************************************************************************)
\* a call of write() that has begun runs on: its steps are taken
SpecWriterLive ==
    WriterInit /\ [][WriterNext]_vars
    /\ WF_vars(WriteReserveHeader) /\ WF_vars(WriteChunk)

\* write() returned: the session is finalized
WriteReturned == wpc = "returned"

\* C15: for any finite sequence of messages, a call of write() that has
\* written the version line goes on through the reserved header and the
\* chunks and eventually returns with the index written and the header
\* rewritten.
C15_WriteFinalizes == (wpc = "version") ~> WriteReturned

\* the Chunk record write() started after the reserved header: its `size`
\* field, the 4-byte size that follows its field block, and its data
ChunkRegion ==
    LET h == ReadHeader(ww.file, pos_header + HEADER_SIZE, CHUNK)
        pos_data == h.pos + 4
    IN  [err |-> h.err,
         size |-> IF K_size \in DOMAIN h.fields THEN decode_uint32(h.fields[K_size]) ELSE -1,
         size_compressed |-> decode_uint32(Read(ww.file, h.pos, 4)),
         pos_data |-> pos_data,
         data |-> Read(ww.file, pos_data, Len(ww.file))]

\* the call of _write_chunk has ended
ChunkEnded == wpc \in {"raised", "closed"}

\* C16: when _write_chunk ends it has closed the chunk: it returned, the `size`
\* field of the Chunk record and the 4-byte size after it both equal the number
\* of data bytes written after them (zero exactly when there was no message),
\* the header region before the chunk is intact, and the cursor is at the end
\* of the chunk data.
C16_ChunkPatched ==
    ChunkEnded =>
        LET r == ChunkRegion IN
        /\ wpc = "closed"
        /\ r.err = ""
        /\ r.size = Len(r.data)
        /\ r.size_compressed = Len(r.data)
        /\ (Len(r.data) = 0) <=> (wmsgs = <<>>)
        /\ ww.pos = r.pos_data + Len(r.data)
        /\ HeaderRegion.end = pos_header + HEADER_SIZE

\* the places of the file where a version line starts
VersionLinesAt(f) ==
    {i \in 0..(Len(f) - Len(VersionLine)) : SubSeq(f, i + 1, i + Len(VersionLine)) = VersionLine}

\* C17: a BagWriter never emits a second version line into its file: a write()
\* on a writer that was already written to is rejected and leaves the bytes of
\* the file as they were.
C17_OneVersionLine == Cardinality(VersionLinesAt(ww.file)) <= 1

\* the value of the pair [lo, hi]: a decoded integer n stands for [lo |-> n, hi |-> 0]
AsUint64(n) == [lo |-> n, hi |-> 0]

\* C18: the index_pos written into a header record decodes to itself: the
\* reader's decode_uint64 applied to the writer's encode_uint64(x) returns x,
\* for x below 2^32 and for x from 2^32 on.
C18_Uint64RoundTrip ==
    wpc \in {"reserved", "rewritten"} =>
        /\ HeaderRegion.fields[K_index_pos] = encode_uint64(wargs.pos_index)
        /\ AsUint64(decode_uint64(encode_uint64(wargs.pos_index))) = wargs.pos_index

(***************************************************************************)
(* Claims about the reader's file handle (Spec).                           *)
(***************************************************************************)
\* C20: when __init__ fails at any step of opening (version check, header,
\* connection and chunk records, index), the file object it opened is closed
\* by the time the exception reaches the caller.
C20_HandleReleased == rpc = "failed" => handle = "closed"

(***************************************************************************)
(* Claims about two iterations on one reader (SpecTwo).                    *)
(***************************************************************************)
\* an iteration run alone from the merge m with the cursor at cursor: what it
\* yields until it ends, and how it ends
RECURSIVE Alone(_, _, _, _, _)
Alone(m, time_start, time_end, cursor, out) ==
    The({ IF g.kind = "yield"
          THEN The({ IF r.err = ""
                     THEN Alone(g.m, time_start, time_end, r.fp, Append(out, r.msg))
                     ELSE [msgs |-> out, pc |-> "raised", err |-> r.err]
                     : r \in {FetchMessageDataRecord(file, cursor, pos_to_chunk, connections,
                                                     g.entry.pos, g.entry.offset)} })
          ELSE [msgs |-> out, pc |-> "done", err |-> ""]
          : g \in {GetEntries(m, time_start, time_end)} })

\* the run alone of the iteration with arguments args whose merge is over the
\* lists of m
AloneOf(args, m) ==
    LET sel == GetConnections(connections, args.topics) IN
    IF \E i \in 1..Len(sel) : sel[i].conn \notin DOMAIN index
    THEN [msgs |-> <<>>, pc |-> "raised", err |-> "KeyError"]
    ELSE Alone(MergeStart(m.lists), args.time_start, args.time_end, fp, <<>>)

IsPrefix(s, t) == Len(s) <= Len(t) /\ SubSeq(t, 1, Len(s)) = s

\* an iteration at pc that has yielded ms (and raised err) agrees with the run
\* alone a
AgreesWith(pc, ms, err, a) ==
    /\ IsPrefix(ms, a.msgs)
    /\ pc \in {"done", "raised"} => (ms = a.msgs /\ pc = a.pc /\ err = a.err)

\* C19: no step of a query or a fetch changes the header, the connection
\* table, the chunk table or the index of an opened reader; and of two
\* iterations advanced in any interleaving each yields what it yields when it
\* runs alone, and ends as it ends alone.
C19_Independent ==
    /\ [](/\ qpc \in {"running", "done", "raised"} => AgreesWith(qpc, msgs, qerr, AloneOf(q, merge))
          /\ qpc2 \in {"running", "done", "raised"}
                => AgreesWith(qpc2, msgs2, qerr2, AloneOf(q2, merge2)))
    /\ [][rpc = "open" => UNCHANGED <<header, connections, chunks, pos_to_chunk, index>>]_vars

\* both iterations are under way, each suspended after its first message, the
\* second over other connections than the first
C19_Witness ==
    /\ qpc = "running" /\ qpc2 = "running"
    /\ Len(msgs) = 1 /\ Len(msgs2) = 1
    /\ merge.lists # merge2.lists


\* ---------------------------------------------------------------------
\* Service lookup (roswire/proxy/service.py, roswire/exceptions.py)
\* ---------------------------------------------------------------------

\* exceptions.py: the classes an exception class derives from
Bases(e) ==
    CASE e = "ServiceNotFoundError" -> {"KeyError", "ROSWireException", "Exception"}
      [] e = "ROSWireException" -> {"Exception"}
      [] e = "KeyError" -> {"Exception"}
      [] OTHER -> {}
IsA(e, c) == e # "" /\ (e = c \/ c \in Bases(e))

ServiceNames == {"/mavros/set_mode", "/coolio"}
MasterCodes == {-1, 0, 1, 2}
ShellCodes == {0, 1}
Schemes == {"rosrpc", "http"}
SrvNames == {"mavros_msgs/SetMode", "std_srvs/Empty", "std_srvs/Trigger"}
HostIpMaster == "172.17.0.2"
Lookups ==
    [name : ServiceNames, code : MasterCodes,
     url : [scheme : Schemes, host : {"0.0.0.0"}, port : {40000}],
     shell_code : ShellCodes, name_fmt : SrvNames]

\* self.__description.formats.services[name_fmt]: the format the description
\* holds under the name the shell printed
FormatOf(name_fmt) == name_fmt

\* ServiceProxy(name, url_host, fmt, ...), url_host being the master's url
\* with the host's address in place of the container's
ProxyOf(req) ==
    [name |-> req.name,
     url |-> [req.url EXCEPT !.host = HostIpMaster],
     format |-> FormatOf(req.name_fmt)]

\* the lookup with the two tests on the master's code exchanged
ServiceGetItemSwapped(req) ==
    IF req.code # 1 THEN [NoAnswer EXCEPT !.err = "ROSWireException"]
    ELSE IF req.code = -1 THEN [NoAnswer EXCEPT !.err = "ServiceNotFoundError"]
    ELSE IF req.shell_code # 0 THEN [NoAnswer EXCEPT !.err = "ROSWireException"]
    ELSE [NoAnswer EXCEPT !.value = ProxyOf(req)]

\* ServiceManagerProxy.__getitem__(name), the master answering (code, msg,
\* url) and the shell (shell_code, name_fmt, duration)
ServiceGetItem(req) ==
    IF req.code = -1 THEN [NoAnswer EXCEPT !.err = "ServiceNotFoundError"]
    ELSE IF req.code # 1 THEN [NoAnswer EXCEPT !.err = "ROSWireException"]
    ELSE IF req.shell_code # 0 THEN [NoAnswer EXCEPT !.err = "ROSWireException"]
    ELSE [NoAnswer EXCEPT !.value = ProxyOf(req)]

\* Mapping.__contains__(name): self[name] is tried, a KeyError means False
\* and every other exception is passed on
ServiceContains(req) ==
    LET r == ServiceGetItem(req)
    IN IF r.err = "" THEN [NoAnswer EXCEPT !.has = TRUE]
       ELSE IF IsA(r.err, "KeyError") THEN NoAnswer
       ELSE [NoAnswer EXCEPT !.err = r.err]

ServiceInit ==
    /\ ServiceIdle
    /\ StringIdle
    /\ CodecIdle
    /\ WriterIdle
    /\ ReaderIdle

GetItem ==
    /\ \E req \in Lookups :
        /\ sreq' = req
        /\ sres' = ServiceGetItem(req)
    /\ spc' = "got"
    /\ UNCHANGED <<codecVars, writerVars, readerVars, queryVars, stringVars>>

Contains ==
    /\ \E req \in Lookups :
        /\ sreq' = req
        /\ sres' = ServiceContains(req)
    /\ spc' = "asked"
    /\ UNCHANGED <<codecVars, writerVars, readerVars, queryVars, stringVars>>

ServiceNext == GetItem \/ Contains
SpecService == ServiceInit /\ [][ServiceNext]_vars

InfoRecords(d) ==
    [i \in 1..Len(d.infos) |-> ChunkInfoRecord(ChunkPos(d, d.infos[i]), d.chunks[d.infos[i]])]
\* where the i-th ChunkInfo record ends, i.e. where the packed (conn, count)
\* array it closes with ends; for i = 0, where the first one starts
InfoEnd(d, i) ==
    Len(FileOf(d)) - Len(Concat(InfoRecords(d)))
    + Len(Concat(SubSeq(InfoRecords(d), 1, i)))
\* where the 4-byte size of chunk k stands: behind the Chunk record's header
SizeFieldPos(d, k) ==
    LET data == ChunkLayout(d.table, d.chunks[k], {}, <<>>, <<>>).data
    IN  ChunkPos(d, k) + Len(ChunkRecord(data)) - Len(Sized(data))

\* C22: while the chunk table is read, the cursor stands where the ChunkInfo
\* record read last ends (where the next one starts), the seek to the chunk
\* being undone; the pos_data of each chunk is the offset of that chunk's
\* 4-byte size.
C22_ChunkInfoCursor ==
    (rpc = "records" /\ Len(connections) >= header.conn_count) =>
        /\ fp = InfoEnd(bag, Len(chunks))
        /\ \A i \in 1..Len(chunks) :
              chunks[i].pos_data = SizeFieldPos(bag, bag.infos[i])
C22_Witness ==
    /\ rpc = "records"
    /\ Len(chunks) = 2
    /\ bag.infos = <<2, 1>>
    /\ fp = InfoEnd(bag, 2)
    /\ fp = Len(file)


\* the index entries of connection c in chunk k of a container, in the order
\* of its IndexData record
RECURSIVE EntriesIn(_, _, _, _)
EntriesIn(d, k, c, j) ==
    IF j > Len(d.chunks[k]) THEN <<>>
    ELSE (IF d.chunks[k][j].conn = c
          THEN <<[time |-> d.chunks[k][j].time, pos |-> ChunkPos(d, k),
                  offset |-> ChunkLayout(d.table, d.chunks[k], {}, <<>>, <<>>).offs[j]]>>
          ELSE <<>>)
         \o EntriesIn(d, k, c, j + 1)
\* the same over the chunks in the order of the chunk table
ExpectedIndex(d, c) ==
    Concat([i \in 1..Len(d.infos) |-> EntriesIn(d, d.infos[i], c, 1)])
\* where the last IndexData record behind chunk k ends
SectionEnd(d, k) == ChunkPos(d, k) + Len(ChunkSection(d.table, d.chunks[k]))

\* C23: once a container is open, the index list of each connection is the
\* concatenation, in chunk-table order, of the (time, offset) pairs of that
\* connection's IndexData record behind each chunk, each with the chunk's
\* record position; behind each chunk one IndexData record is read per
\* connection of the chunk's summary.
C23_IndexBuilt ==
    /\ (rpc = "index" /\ nindexed >= 1) =>
            /\ fp = SectionEnd(bag, bag.infos[nindexed])
            /\ \A c \in DOMAIN index :
                  index[c] = Concat([i \in 1..nindexed |->
                                        EntriesIn(bag, bag.infos[i], c, 1)])
    /\ (rpc = "open" /\ qpc = "none") =>
            \A c \in IdsOf(bag.table) :
                ExpectedIndex(bag, c) = IF c \in DOMAIN index THEN index[c] ELSE <<>>
C23_Witness ==
    /\ rpc = "open" /\ qpc = "none"
    /\ bag.infos = <<2, 1>>
    /\ \E c \in DOMAIN index :
          /\ Len(index[c]) = 3
          /\ index[c] = ExpectedIndex(bag, c)
          /\ index[c][1].pos > index[c][2].pos


\* C24: once a container is open, no connection id of the index maps to an
\* empty list, and every connection that has an entry in some IndexData
\* record is a key of the index.
C24_NoEmptyList ==
    /\ rpc = "open" => \A c \in DOMAIN index : index[c] # <<>>
    /\ (rpc = "open" /\ qpc = "none") =>
            \A c \in IdsOf(bag.table) :
                ExpectedIndex(bag, c) # <<>> => c \in DOMAIN index
C24_Witness ==
    /\ rpc = "open" /\ qpc = "none"
    /\ \E c \in IdsOf(bag.table) : c \notin DOMAIN index /\ ExpectedIndex(bag, c) = <<>>
    /\ \E c \in IdsOf(bag.table) : c \in DOMAIN index /\ Len(index[c]) >= 2


\* the input list of the merge an entry comes from, and its place in it
ListOf(e) == CHOOSE i \in 1..Len(merge.lists) : e \in SeqSet(merge.lists[i])
PlaceOf(e) == CHOOSE k \in 1..Len(merge.lists[ListOf(e)]) : merge.lists[ListOf(e)][k] = e

\* C25: of two entries of equal time the merge produces first the one whose
\* input list comes first, whatever their pos and offset, and two entries of
\* one list are produced in the order the list has them.
C25_StableMerge ==
    \A a \in 1..Len(merge.out) : \A b \in (a + 1)..Len(merge.out) :
        /\ merge.out[a].time = merge.out[b].time =>
                ListOf(merge.out[a]) <= ListOf(merge.out[b])
        /\ ListOf(merge.out[a]) = ListOf(merge.out[b]) =>
                PlaceOf(merge.out[a]) < PlaceOf(merge.out[b])
\* the second half alone: entries of one list keep their order
C25_SameListOrder ==
    \A a \in 1..Len(merge.out) : \A b \in (a + 1)..Len(merge.out) :
        ListOf(merge.out[a]) = ListOf(merge.out[b]) =>
            PlaceOf(merge.out[a]) < PlaceOf(merge.out[b])


\* C26: the header region a writer leaves is read back by both readers: each
\* ends at the header offset + 4096 and reports the conn_count and chunk_count
\* that were written, the roswire reader skipping the sized padding and the
\* rozzy reader 4096 minus the header's size.
C26_ReadersAgree ==
    wpc \in {"reserved", "rewritten"} =>
        LET r == ReadHeaderRecord(ww.file, pos_header)
            z == BagHeaderRecord_from_byte_stream(ww.file, pos_header)
        IN  /\ r.err = ""
            /\ r.pos = pos_header + HEADER_SIZE
            /\ r.header.conn_count = wargs.conn_count
            /\ r.header.chunk_count = wargs.chunk_count
            /\ z.err = ""
            /\ z.pos = pos_header + HEADER_SIZE
            /\ z.conn_count = wargs.conn_count
            /\ z.chunk_count = wargs.chunk_count
\* the roswire half alone
C26_RoswireAgrees ==
    wpc \in {"reserved", "rewritten"} =>
        LET r == ReadHeaderRecord(ww.file, pos_header)
        IN  /\ r.err = ""
            /\ r.pos = pos_header + HEADER_SIZE
            /\ r.header.conn_count = wargs.conn_count
            /\ r.header.chunk_count = wargs.chunk_count

\* C30: RecordHeader.from_byte_stream returns on every input, the stream
\* advanced by 4 + length_header bytes.
C30_ConsumesBlock ==
    cpc = "rozzy" =>
        /\ cout.err = ""
        /\ cout.pos = 4 + int_from_bytes(Read(cw.file, 0, 4))
\* what holds instead: the call ends, with TypeError
C30_AlwaysTypeError == cpc = "rozzy" => cout.err = "TypeError"


\* ---------------------------------------------------------------------
\* string_writer (roswire/definitions/encode.py)
\* ---------------------------------------------------------------------
\* the most characters of a string handed to the writer
MaxStrLen == 3
\* 'a', 'e' with acute accent, the euro sign, an emoji: one to four bytes each
CodePoints == {97, 233, 8364, 128512}
RECURSIVE StringsUpTo(_)
StringsUpTo(n) ==
    IF n = 0 THEN {<<>>}
    ELSE LET less == StringsUpTo(n - 1) IN
         less \cup {Append(v, c) : v \in {x \in less : Len(x) = n - 1}, c \in CodePoints}
\* the length argument of string_writer: None, or a number
LengthArgs == {[given |-> FALSE, n |-> 0], [given |-> TRUE, n |-> 2]}

\* the UTF-8 bytes of one code point
Utf8(c) ==
    IF c < 128 THEN <<c>>
    ELSE IF c < 2048 THEN <<192 + (c \div 64), 128 + (c % 64)>>
    ELSE IF c < 65536
    THEN <<224 + (c \div 4096), 128 + ((c \div 64) % 64), 128 + (c % 64)>>
    ELSE <<240 + (c \div 262144), 128 + ((c \div 4096) % 64),
           128 + ((c \div 64) % 64), 128 + (c % 64)>>

\* str.encode(val): the UTF-8 bytes of the string
RECURSIVE str_encode(_)
str_encode(val) == IF val = <<>> THEN <<>> ELSE Utf8(Head(val)) \o str_encode(Tail(val))

\* str.__len__(val): the number of characters
str_len(val) == Len(val)

\* the encoder sized_encoder(encoder_content, get_size) returns, for
\* encoder_content = str.encode and get_size = str.__len__
sized_encoder(val) == encode_uint32(str_len(val)) \o str_encode(val)

\* string_writer(length)(b, val) on an empty stream b: the bytes written
string_writer(length, val) ==
    IF ~length.given THEN sized_encoder(val) ELSE str_encode(val)

StringInit ==
    /\ StringIdle
    /\ ServiceIdle
    /\ CodecIdle
    /\ WriterIdle
    /\ ReaderIdle

StringWrite ==
    /\ \E val \in StringsUpTo(MaxStrLen), length \in LengthArgs :
        /\ tin' = [val |-> val, length |-> length]
        /\ tout' = string_writer(length, val)
    /\ tpc' = "written"
    /\ UNCHANGED <<codecVars, writerVars, readerVars, queryVars, serviceVars>>

SpecString == StringInit /\ [][StringWrite]_vars

\* C27: a variable-length string is written as a 4-byte little-endian length
\* that is the number of bytes of the encoded string, not of its characters,
\* followed by exactly those bytes and nothing else.
C27_ByteLength ==
    (tpc = "written" /\ ~tin.length.given) =>
        /\ Len(tout) >= 4
        /\ decode_uint32(Take(tout, 4)) = Len(str_encode(tin.val))
        /\ Drop(tout, 4) = str_encode(tin.val)
\* what holds instead: the length written is the number of characters
C27_CharLength ==
    (tpc = "written" /\ ~tin.length.given) =>
        /\ decode_uint32(Take(tout, 4)) = Len(tin.val)
        /\ Drop(tout, 4) = str_encode(tin.val)


\* C28: an iteration of read_messages never fails on the lookup of a selected
\* connection in the index, a connection without messages included.
C28_IndexLookupSucceeds ==
    qpc = "raised" =>
        ~(/\ qerr = "KeyError"
          /\ \E c \in ConnSet(GetConnections(connections, q.topics)) :
                c.conn \notin DOMAIN index)

\* the connection of the table whose id is conn_id
ConnectionOf(conn_id) == CHOOSE c \in ConnSet(connections) : c.conn = conn_id

\* C29: a fetched message carries the topic of the connection whose id is the
\* record's conn field, whatever the order of the connection records and
\* whether or not the ids are the positions of the table.
C29_TopicOfConnId ==
    (fetched.done /\ fetched.err \in {"", "IndexError"}) =>
        /\ fetched.err = ""
        /\ fetched.msg.topic = ConnectionOf(fetched.conn_id).topic
\* what holds instead: the topic is that of the conn_id-th connection record
C29_TopicOfPosition ==
    (fetched.done /\ fetched.err = "") =>
        fetched.msg.topic = connections[fetched.conn_id + 1].topic

=============================================================================
